---- MODULE Spec2Model ----
(***************************************************************************)
(* Automation job queue of the local control center                        *)
(* (api/routers/automation.py): the automation_jobs table, the four Redis  *)
(* lists job_queue:0..3, the WebSocket ConnectionManager and the HTTP      *)
(* handlers create_job, update_job, cancel_job and retry_job.              *)
(*                                                                         *)
(* Every handler is one action.  A handler runs at the wall-clock time     *)
(* `now` (utcnow() and the SQL NOW() of one request); the clock moves on   *)
(* by one with every request, and requests are served while now < MaxTime. *)
(***************************************************************************)
EXTENDS Integers, Sequences, FiniteSets, TLC

\* ------------------------------------------------------------------ bounds
MaxJobs == 2          \* rows the automation_jobs table may hold
MaxTime == 4          \* requests are served while now < MaxTime
MaxCalls == 2         \* update_job calls that run step by step
HoursAhead == 3       \* hours_ahead of a schedule recommendation
ShortTimeout == 1     \* timeout_seconds of a job that outlives its timeout
MaxRuns == 2          \* test runs the QA router may hold

\* ------------------------------------------------------- program constants
PENDING   == "pending"
QUEUED    == "queued"
RUNNING   == "running"
PAUSED    == "paused"
COMPLETED == "completed"
FAILED    == "failed"
CANCELLED == "cancelled"
JobStatus == {PENDING, QUEUED, RUNNING, PAUSED, COMPLETED, FAILED, CANCELLED}

LOW      == 0
NORMAL   == 1
HIGH     == 2
CRITICAL == 3
JobPriority == {LOW, NORMAL, HIGH, CRITICAL}

NULL    == -1         \* SQL NULL / Python None of a timestamp or number
NoneStr == "none"     \* Python None of a string-valued request field
GLOBAL  == "global"   \* default registration key of the ConnectionManager
CLOSED  == "closed"   \* a socket whose peer has gone away

\* --------------------------------------------------------- request inputs
Clients        == {"cX"}              \* rows of the clients table
UnknownClient  == "cZ"                \* a client id with no row
OtherClient    == "cY"                \* the client_id of another /ws/ path
JobIds         == 1..MaxJobs          \* uuid4() values, in order of creation
UnknownJob     == MaxJobs + 1         \* a job id with no row
PriorityInputs == {NORMAL, CRITICAL}
SchedOffsets   == {0, 2}              \* requested scheduled_at - now
MaxRetriesInputs == {0, 1}
JobTypeInputs  == {"menu_sync"}
DefaultTimeout == 3600
DocInputs      == {"d1"}              \* config / metadata of a create
UpdateDocInputs == {"d2"}             \* config / metadata of an update
Sockets        == {"w1"}        \* WebSocket objects
ConnKeys       == Clients \cup {GLOBAL}

VARIABLES
    jobs,                \* automation_jobs: sequence of rows, id = index
    tiers,               \* Redis lists job_queue:<priority>, head first
    active_connections,  \* ConnectionManager.active_connections
    wsKey,               \* per socket: NoneStr (not yet accepted), the key its
                         \* handler registered it under, or CLOSED
    now,                 \* wall clock
    resp,                \* the last request and its HTTP response
    sent,                \* send_json calls made by the last request
    peer_gone,           \* sockets whose peer went away unnoticed so far
    dispatch_log,        \* history of the Redis lists: pushes and pops
    calls,               \* update_job calls suspended at an await
    delivered,           \* history of the send_json calls that succeeded
    advisor,             \* the intelligence router: its request and answer
    stalled,             \* sockets whose peer has stopped reading
    client_subscriptions, \* ConnectionManager.client_subscriptions
    test_runs            \* qaRouter.test_runs, with each run's background task

\* what the handlers of one whole request each leave alone
beyond == <<peer_gone, dispatch_log, calls, delivered, advisor, stalled,
            client_subscriptions, test_runs>>

vars == <<jobs, tiers, active_connections, wsKey, now, resp, sent,
          peer_gone, dispatch_log, calls, delivered, advisor, stalled,
                   client_subscriptions, test_runs>>

\* ------------------------------------------------- intelligence router
\* datetime values as far as get_schedule_recommendations tells them apart:
\* hours since an epoch and the fields below the hour.
datetime(h, m, s, us) ==
    [hour |-> h, minute |-> m, second |-> s, microsecond |-> us]

\* last_job_times.get(jt) of a job type that never completed: None
NoDatetime == datetime(NULL, 0, 0, 0)

\* a + timedelta(hours=n), a + timedelta(minutes=n)
plus_hours(t, n) == [t EXCEPT !.hour = @ + n]
plus_minutes(t, n) ==
    LET m == t.minute + n
    IN  [t EXCEPT !.hour = @ + (m \div 60), !.minute = m % 60]

\* a < b on datetime values
before(a, b) ==
    \/ a.hour < b.hour
    \/ a.hour = b.hour /\ a.minute < b.minute
    \/ a.hour = b.hour /\ a.minute = b.minute /\ a.second < b.second
    \/ /\ a.hour = b.hour /\ a.minute = b.minute /\ a.second = b.second
       /\ a.microsecond < b.microsecond

\* next_run.replace(minute=0, second=0): the microsecond is kept
replace_minute_second(t) == [t EXCEPT !.minute = 0, !.second = 0]

\* date_trunc('hour', scheduled_at)
date_trunc_hour(t) == datetime(t.hour, 0, 0, 0)

\* HAVING COUNT(*) > 3
BusyJobCount == 3

\* busy_hours, from the number of rows the query counts in each hour of the
\* window now .. end_time
busy_hours(job_count) ==
    {datetime(h, 0, 0, 0) : h \in {x \in DOMAIN job_count :
                                     job_count[x] > BusyJobCount}}

\* one interval of a day for every job type
interval_of_a_day(jt) == 24

\* intervals.get(jt, timedelta(hours=24)), in hours
interval(jt) ==
    CASE jt = "health_check" -> 6
      [] jt = "menu_sync"    -> 24
      [] jt = "golden_copy"  -> 24
      [] jt = "backup"       -> 12
      [] OTHER               -> 24

\* next_run before the busy hours are looked at
candidate_run(at, last_run, jt) ==
    IF last_run # NoDatetime
    THEN LET next_run == plus_hours(last_run, interval(jt))
         IN  IF before(next_run, at) THEN plus_minutes(at, 30) ELSE next_run
    ELSE plus_hours(at, 1)

\* while next_run.replace(minute=0, second=0) in busy_hours:
\*     next_run += timedelta(hours=1)
RECURSIVE avoid_busy(_, _)
avoid_busy(next_run, busy) ==
    IF replace_minute_second(next_run) \in busy
    THEN avoid_busy(plus_hours(next_run, 1), busy)
    ELSE next_run

recommended_time(at, last_run, jt, job_count) ==
    avoid_busy(candidate_run(at, last_run, jt), busy_hours(job_count))

\* constraints.get(key, default); NULL stands for a key that is absent
DefaultFrequency == 1
DefaultManualMinutes == 30
DefaultEffortHours == 8
get(value, default) == IF value = NULL THEN default ELSE value

\* a quotient of two numbers, kept as numerator and denominator (den > 0);
\* float('inf') has den = 0
quot(n, d) == [num |-> n, den |-> d]
Infinity == quot(1, 0)

\* monthly_time_saved = frequency * manual_time_minutes / 60
monthly_time_saved(frequency, manual_time_minutes) ==
    quot(frequency * manual_time_minutes, 60)

\* automation_effort_hours / monthly_time_saved if monthly_time_saved > 0
\* else float('inf')
payback_months(automation_effort_hours, saved) ==
    IF saved.num > 0
    THEN quot(automation_effort_hours * saved.den, saved.num)
    ELSE Infinity

\* q <= k and q > k for a whole number k
at_most(q, k) == q.den # 0 /\ q.num <= k * q.den
more_than(q, k) == ~at_most(q, k)

PaybackThreshold == 3
SurePayback == 2
HopelessPayback == 6

should_automate_below_threshold(payback) ==
    payback.den # 0 /\ payback.num < PaybackThreshold * payback.den

\* should_automate = payback_months <= 3
should_automate(payback) == at_most(payback, PaybackThreshold)

\* 0.80 if payback_months <= 2 or payback_months > 6 else 0.60, in hundredths
HighConfidence == 80
LowConfidence == 60
confidence(payback) ==
    IF at_most(payback, SurePayback) \/ more_than(payback, HopelessPayback)
    THEN HighConfidence ELSE LowConfidence

decision(payback) ==
    IF should_automate(payback) THEN "Automate" ELSE "Keep Manual"

\* ------------------------------------------------- the context of a decision
\* a str is the sequence of its characters
Uppercase ==
    <<"A", "B", "C", "D", "E", "F", "G", "H", "I", "J", "K", "L", "M">> \o
    <<"N", "O", "P", "Q", "R", "S", "T", "U", "V", "W", "X", "Y", "Z">>
Lowercase ==
    <<"a", "b", "c", "d", "e", "f", "g", "h", "i", "j", "k", "l", "m">> \o
    <<"n", "o", "p", "q", "r", "s", "t", "u", "v", "w", "x", "y", "z">>

lower_unchanged(s) == s

\* str.lower()
lower(s) ==
    [i \in 1..Len(s) |->
        IF \E k \in 1..Len(Uppercase) : Uppercase[k] = s[i]
        THEN Lowercase[CHOOSE k \in 1..Len(Uppercase) : Uppercase[k] = s[i]]
        ELSE s[i]]

\* sub in s, of two strs
contains(s, sub) ==
    \E i \in 1..(Len(s) - Len(sub) + 1) :
        SubSeq(s, i, i + Len(sub) - 1) = sub

\* the words make_decision looks for
keywords ==
    [scheduling |->
         <<"s", "c", "h", "e", "d", "u", "l", "i", "n", "g">>,
     when |->
         <<"w", "h", "e", "n">>,
     prioritization |->
         <<"p", "r", "i", "o", "r", "i", "t", "i", "z", "a", "t", "i", "o", "n">>,
     priority |->
         <<"p", "r", "i", "o", "r", "i", "t", "y">>,
     automation |->
         <<"a", "u", "t", "o", "m", "a", "t", "i", "o", "n">>,
     automate |->
         <<"a", "u", "t", "o", "m", "a", "t", "e">>]

\* the if/elif chain of make_decision on request.context.lower()
strategy(context) ==
    LET decision_context == lower(context)
    IN  IF contains(decision_context, keywords.scheduling)
           \/ contains(decision_context, keywords.when)
        THEN "_make_scheduling_decision"
        ELSE IF contains(decision_context, keywords.prioritization)
                \/ contains(decision_context, keywords.priority)
        THEN "_make_prioritization_decision"
        ELSE IF contains(decision_context, keywords.automation)
                \/ contains(decision_context, keywords.automate)
        THEN "_make_automation_decision"
        ELSE "generic"

\* confidences of the other answers, in hundredths
SchedulingConfidence == 85
PrioritizationConfidence == 75
NoOptionsConfidence == 0
GenericConfidence == 30

\* the DecisionResponse of _make_automation_decision for a request
automation_viability(r) ==
    LET frequency == get(r.frequency_per_month, DefaultFrequency)
        manual_time_minutes ==
            get(r.manual_time_minutes, DefaultManualMinutes)
        automation_effort_hours ==
            get(r.automation_effort_hours, DefaultEffortHours)
        payback ==
            payback_months(automation_effort_hours,
                monthly_time_saved(frequency, manual_time_minutes))
    IN  [decision |-> decision(payback), confidence |-> confidence(payback)]

\* the DecisionResponse of POST /decide: the decision (up to the slot or the
\* option it names) and the confidence of the strategy chosen
decide(r) ==
    LET chosen == strategy(r.context)
    IN  IF chosen = "_make_scheduling_decision"
        THEN [decision |-> "Schedule for",
              confidence |-> SchedulingConfidence]
        ELSE IF chosen = "_make_prioritization_decision"
        THEN IF r.options = 0
             THEN [decision |-> "Unable to prioritize without options",
                   confidence |-> NoOptionsConfidence]
             ELSE [decision |-> "Prioritize:",
                   confidence |-> PrioritizationConfidence]
        ELSE IF chosen = "_make_automation_decision"
        THEN automation_viability(r)
        ELSE [decision |-> "Requires manual review",
              confidence |-> GenericConfidence]

\* the router before a request
NoAdvice == [op |-> "idle"]

\* ----------------------------------------------------------------- helpers
Exists(id) == id \in 1..Len(jobs)

RECURSIVE SeqToSet(_)
SeqToSet(s) == IF s = <<>> THEN {} ELSE {Head(s)} \cup SeqToSet(Tail(s))

InTiers(id) == \E p \in JobPriority : id \in SeqToSet(tiers[p])

Conns(ac, key) == IF key \in DOMAIN ac THEN ac[key] ELSE <<>>

\* lpush inserting at the tail of the list instead
lpush_at_tail(t, p, id) == [t EXCEPT ![p] = Append(t[p], id)]

\* redis.lpush(key, value): insert at the head of the list
lpush(t, p, id) == [t EXCEPT ![p] = <<id>> \o t[p]]

\* ConnectionManager.broadcast_to_client: the list fetched for client_id is
\* the stored list object, and extend() appends the global connections to it
\* in place; every element of the extended list gets one send_json.
broadcast_targets_every_list(ac, cid) ==
    Conns(ac, cid) \o Conns(ac, GLOBAL) \o Conns(ac, OtherClient)

broadcast_targets(ac, cid) == Conns(ac, cid) \o Conns(ac, GLOBAL)

broadcast_to_client(ac, cid) ==
    IF cid \in DOMAIN ac
    THEN [ac EXCEPT ![cid] = broadcast_targets(ac, cid)]
    ELSE ac

\* broadcast_job_update giving up at the first send_json that raises
broadcast_job_update_until_failure(ac, id, cid, status) ==
    LET tg  == broadcast_targets(ac, cid)
        up(i) == wsKey[tg[i]] # CLOSED /\ tg[i] \notin peer_gone
        bad == {i \in 1..Len(tg) : ~up(i)}
        n   == IF bad = {} THEN Len(tg)
               ELSE CHOOSE i \in bad : \A k \in bad : i <= k
    IN  [i \in 1..n |->
            [ws |-> tg[i], job |-> id, status |-> status, ok |-> up(i)]]

\* ConnectionManager.broadcast_job_update: the message sent to every target;
\* ok is FALSE when send_json raised (socket closed, or its peer gone), which
\* is logged only.
broadcast_job_update(ac, id, cid, status) ==
    LET tg == broadcast_targets(ac, cid)
    IN  [i \in 1..Len(tg) |->
            [ws |-> tg[i], job |-> id, status |-> status,
             ok |-> wsKey[tg[i]] # CLOSED /\ tg[i] \notin peer_gone]]

Init ==
    /\ jobs = <<>>
    /\ tiers = [p \in JobPriority |-> <<>>]
    /\ active_connections = << >>
    /\ wsKey = [w \in Sockets |-> NoneStr]
    /\ now = 1
    /\ resp = [op |-> "init", code |-> 0]
    /\ sent = <<>>
    /\ peer_gone = {}
    /\ dispatch_log = <<>>
    /\ calls = <<>>
    /\ delivered = <<>>
    /\ advisor = NoAdvice
    /\ stalled = {}
    /\ client_subscriptions = << >>
    /\ test_runs = <<>>

\* ------------------------------------------------------------- create_job
\* initial_status with the dependency check left out: the schedule alone
\* decides
initial_status_schedule_only(deps, sched) ==
    IF sched <= now THEN QUEUED ELSE PENDING

\* "Determine initial status" of create_job; deps is request.depends_on and
\* sched is request.scheduled_at or utcnow().
initial_status(deps, sched) ==
    IF deps # {}
    THEN IF \E d \in deps : Exists(d) /\ jobs[d].status # COMPLETED
         THEN PENDING
         ELSE QUEUED
    ELSE IF sched <= now THEN QUEUED ELSE PENDING

\* deps_exist letting a job list the id it is about to get
deps_exist_or_own(deps) == \A d \in deps : Exists(d) \/ d = Len(jobs) + 1

\* deps_exist stopping at the first dependency that has a row
deps_exist_some(deps) == deps = {} \/ \E d \in deps : Exists(d)

\* "Check dependencies" of create_job: every listed id has a row
deps_exist(deps) == \A d \in deps : Exists(d)

\* The row INSERTed by create_job; columns the statement does not name take
\* their defaults.
new_row(req, sched) ==
    [client_id |-> req.client_id, job_type |-> req.job_type,
     status |-> initial_status(req.depends_on, sched),
     priority |-> req.priority, config |-> req.config,
     scheduled_at |-> sched, depends_on |-> req.depends_on,
     retry_on_failure |-> req.retry_on_failure,
     max_retries |-> req.max_retries,
     timeout_seconds |-> req.timeout_seconds, metadata |-> req.metadata,
     created_at |-> now, updated_at |-> now,
     started_at |-> NULL, completed_at |-> NULL,
     result |-> NoneStr, error |-> NoneStr,
     progress |-> 0, progress_message |-> NoneStr, retry_count |-> 0]

\* depends_on lists of stored jobs, and lists that name a job with no row
DependsOnInputs ==
    LET known == SUBSET (1..Len(jobs))
    IN  known \cup {d \cup {UnknownJob} : d \in known}

CreateJobRequest ==
    [client_id : Clients \cup {UnknownClient},
     job_type : JobTypeInputs,
     priority : PriorityInputs,
     config : DocInputs,
     scheduled_at : {NULL} \cup {now + o : o \in SchedOffsets},
     depends_on : DependsOnInputs,
     retry_on_failure : {TRUE},
     max_retries : MaxRetriesInputs,
     timeout_seconds : {DefaultTimeout},
     metadata : DocInputs]

\* raise HTTPException(status_code=code): nothing was written or sent
Reject(op, code, id) ==
    /\ resp' = [op |-> op, code |-> code, job |-> id]
    /\ sent' = <<>>
    /\ now' = now + 1
    /\ UNCHANGED <<jobs, tiers, active_connections, wsKey>>

create_job(req) ==
    /\ now < MaxTime
    /\ IF req.client_id \notin Clients
       THEN Reject("create", 404, NULL)
       ELSE IF ~deps_exist(req.depends_on)
       THEN Reject("create", 400, NULL)
       ELSE
         LET job_id == Len(jobs) + 1
             sched  == IF req.scheduled_at = NULL THEN now ELSE req.scheduled_at
             row    == new_row(req, sched)
         IN  /\ Len(jobs) < MaxJobs
             /\ jobs' = Append(jobs, row)
             /\ tiers' = IF row.status = QUEUED
                         THEN lpush(tiers, req.priority, job_id)
                         ELSE tiers
             /\ sent' = broadcast_job_update(active_connections, job_id,
                                             req.client_id, row.status)
             /\ active_connections' =
                    broadcast_to_client(active_connections, req.client_id)
             /\ resp' = [op |-> "create", code |-> 201, job |-> job_id]
             /\ now' = now + 1
             /\ UNCHANGED wsKey

\* ------------------------------------------------------------- update_job
\* The empty request, which names no column
NoUpdate ==
    [status |-> NoneStr, priority |-> NULL, config |-> NoneStr,
     scheduled_at |-> NULL, metadata |-> NoneStr]

\* Requests that name at most one column
UpdateJobRequest ==
    {NoUpdate}
    \cup {[NoUpdate EXCEPT !.status = x] : x \in JobStatus}
    \cup {[NoUpdate EXCEPT !.priority = x] : x \in PriorityInputs}
    \cup {[NoUpdate EXCEPT !.config = x] : x \in UpdateDocInputs}
    \cup {[NoUpdate EXCEPT !.scheduled_at = now + o] : o \in SchedOffsets}
    \cup {[NoUpdate EXCEPT !.metadata = x] : x \in UpdateDocInputs}

\* "Build update": TRUE when the request names no column
no_updates(req) ==
    /\ req.status = NoneStr
    /\ req.priority = NULL
    /\ req.config = NoneStr
    /\ req.scheduled_at = NULL
    /\ req.metadata = NoneStr

\* The row after UPDATE automation_jobs SET <updates>, updated_at = NOW()
updated_row(row, req) ==
    [row EXCEPT
        !.status = IF req.status # NoneStr THEN req.status ELSE @,
        !.started_at = IF req.status = RUNNING THEN now ELSE @,
        !.completed_at = IF req.status \in {COMPLETED, FAILED, CANCELLED}
                         THEN now ELSE @,
        !.priority = IF req.priority # NULL THEN req.priority ELSE @,
        !.config = IF req.config # NoneStr THEN req.config ELSE @,
        !.scheduled_at = IF req.scheduled_at # NULL THEN req.scheduled_at ELSE @,
        !.metadata = IF req.metadata # NoneStr THEN req.metadata ELSE @,
        !.updated_at = now]

update_job(job_id, req) ==
    /\ now < MaxTime
    /\ IF ~Exists(job_id)
       THEN Reject("update", 404, job_id)
       ELSE IF no_updates(req)
       THEN /\ resp' = [op |-> "update", code |-> 200, job |-> job_id]
            /\ sent' = <<>>
            /\ now' = now + 1
            /\ UNCHANGED <<jobs, tiers, active_connections, wsKey>>
       ELSE
         LET row == updated_row(jobs[job_id], req)
         IN  /\ jobs' = [jobs EXCEPT ![job_id] = row]
             /\ sent' = broadcast_job_update(active_connections, job_id,
                                             row.client_id, row.status)
             /\ active_connections' =
                    broadcast_to_client(active_connections, row.client_id)
             /\ resp' = [op |-> "update", code |-> 200, job |-> job_id]
             /\ now' = now + 1
             /\ UNCHANGED <<tiers, wsKey>>

\* ------------------------------------------------------------- cancel_job
\* cancel_allowed refusing only what is already cancelled
cancel_allowed_unless_cancelled(status) == status # CANCELLED

\* cancelled_row that also resets started_at
cancelled_row_clears_started_at(row) ==
    [row EXCEPT !.status = CANCELLED, !.completed_at = now, !.updated_at = now,
                !.started_at = NULL]

\* WHERE clause of the UPDATE in cancel_job
cancel_allowed(status) == status \in {PENDING, QUEUED, RUNNING, PAUSED}

cancelled_row(row) ==
    [row EXCEPT !.status = CANCELLED, !.completed_at = now, !.updated_at = now]

cancel_job(job_id) ==
    /\ now < MaxTime
    /\ IF ~(Exists(job_id) /\ cancel_allowed(jobs[job_id].status))
       THEN Reject("cancel", 400, job_id)
       ELSE
         LET row == cancelled_row(jobs[job_id])
         IN  /\ jobs' = [jobs EXCEPT ![job_id] = row]
             /\ sent' = broadcast_job_update(active_connections, job_id,
                                             row.client_id, CANCELLED)
             /\ active_connections' =
                    broadcast_to_client(active_connections, row.client_id)
             /\ resp' = [op |-> "cancel", code |-> 200, job |-> job_id]
             /\ now' = now + 1
             /\ UNCHANGED <<tiers, wsKey>>

\* -------------------------------------------------------------- retry_job
\* retry_allowed that also re-queues a paused job
retry_allowed_or_paused(row) == row.status \in {FAILED, CANCELLED, PAUSED}

\* retried_row that leaves completed_at as it was
retried_row_keeps_completed_at(row) ==
    [row EXCEPT !.status = QUEUED, !.started_at = NULL,
                !.error = NoneStr, !.result = NoneStr,
                !.retry_count = @ + 1, !.updated_at = now]

\* an UPDATE in retry_job without the condition on the status
retry_allowed_whatever_status(row) == row.status \in JobStatus

\* WHERE clause of the UPDATE in retry_job
retry_allowed(row) == row.status \in {FAILED, CANCELLED}

retried_row(row) ==
    [row EXCEPT !.status = QUEUED, !.started_at = NULL, !.completed_at = NULL,
                !.error = NoneStr, !.result = NoneStr,
                !.retry_count = @ + 1, !.updated_at = now]

retry_job(job_id) ==
    /\ now < MaxTime
    /\ IF ~(Exists(job_id) /\ retry_allowed(jobs[job_id]))
       THEN Reject("retry", 400, job_id)
       ELSE
         LET row == retried_row(jobs[job_id])
         IN  /\ jobs' = [jobs EXCEPT ![job_id] = row]
             /\ tiers' = lpush(tiers, row.priority, job_id)
             /\ sent' = broadcast_job_update(active_connections, job_id,
                                             row.client_id, QUEUED)
             /\ active_connections' =
                    broadcast_to_client(active_connections, row.client_id)
             /\ resp' = [op |-> "retry", code |-> 200, job |-> job_id]
             /\ now' = now + 1
             /\ UNCHANGED wsKey

\* ------------------------------------------------------ ConnectionManager
\* list.remove(x): drop the first occurrence of x
RECURSIVE remove(_, _)
remove(s, x) ==
    IF s = <<>> THEN <<>>
    ELSE IF Head(s) = x THEN Tail(s)
    ELSE <<Head(s)>> \o remove(Tail(s), x)

\* websocket_endpoint up to manager.connect(websocket, client_id)
connect(ws, key) ==
    /\ now < MaxTime
    /\ wsKey[ws] = NoneStr
    /\ wsKey' = [wsKey EXCEPT ![ws] = key]
    /\ active_connections' =
          (key :> Append(Conns(active_connections, key), ws))
             @@ active_connections
    /\ now' = now + 1
    /\ UNCHANGED <<jobs, tiers, resp, sent>>

\* websocket_endpoint on WebSocketDisconnect: manager.disconnect
disconnect(ws) ==
    LET key  == wsKey[ws]
        rest == remove(Conns(active_connections, key), ws)
    IN  /\ now < MaxTime
        /\ key \notin {NoneStr, CLOSED}
        /\ wsKey' = [wsKey EXCEPT ![ws] = CLOSED]
        /\ active_connections' =
              IF key \notin DOMAIN active_connections THEN active_connections
              ELSE IF rest = <<>>
              THEN [k \in DOMAIN active_connections \ {key} |->
                        active_connections[k]]
              ELSE [active_connections EXCEPT ![key] = rest]
        /\ now' = now + 1
    /\ UNCHANGED <<jobs, tiers, resp, sent>>

\* job ids of a request path: the stored jobs and one id with no row
JobIdInputs == (1..Len(jobs)) \cup {UnknownJob}

Next ==
    \/ \E req \in CreateJobRequest : create_job(req) /\ UNCHANGED beyond
    \/ \E id \in JobIdInputs, req \in UpdateJobRequest :
          update_job(id, req) /\ UNCHANGED beyond
    \/ \E id \in JobIdInputs : cancel_job(id) /\ UNCHANGED beyond
    \/ \E id \in JobIdInputs : retry_job(id) /\ UNCHANGED beyond
    \/ \E ws \in Sockets, key \in ConnKeys :
          connect(ws, key) /\ UNCHANGED beyond
    \/ \E ws \in Sockets : disconnect(ws) /\ UNCHANGED beyond

\* ------------------------------------------------------ execution backend
\* The workers of the execution backend take job ids off the Redis lists.
\* dispatch_log records every push a handler makes and every pop of a worker.
Pushes(log, p) == SelectSeq(log, LAMBDA e : e.ev = "push" /\ e.tier = p)
Pops(log, p)   == SelectSeq(log, LAMBDA e : e.ev = "pop" /\ e.tier = p)

\* dispatch_log after a handler that answered for job resp'.job: one entry
\* when the handler pushed the id onto a list
logged_lpush ==
    dispatch_log' =
        IF tiers' = tiers THEN dispatch_log
        ELSE LET p == CHOOSE q \in JobPriority : tiers'[q] # tiers[q]
             IN  Append(dispatch_log,
                        [ev |-> "push", tier |-> p, job |-> resp'.job])

\* the list a worker's blocking pop serves: the first non-empty one of
\* job_queue:3, job_queue:2, job_queue:1, job_queue:0
claim_tier(t) ==
    CHOOSE p \in JobPriority :
        t[p] # <<>> /\ \A q \in JobPriority : q > p => t[q] = <<>>

\* claim: one worker pops the tail of that list, the id pushed first
claim ==
    /\ \E p \in JobPriority : tiers[p] # <<>>
    /\ LET p  == claim_tier(tiers)
           id == tiers[p][Len(tiers[p])]
       IN  /\ tiers' = [tiers EXCEPT ![p] = SubSeq(@, 1, Len(@) - 1)]
           /\ dispatch_log' =
                  Append(dispatch_log, [ev |-> "pop", tier |-> p, job |-> id])
    /\ UNCHANGED <<jobs, active_connections, wsKey, now, resp, sent,
                   peer_gone, calls, delivered, advisor, stalled,
                   client_subscriptions, test_runs>>

\* requests of the dispatch specification: jobs that are queued at once
DispatchCreateRequest ==
    {r \in CreateJobRequest :
        /\ r.client_id \in Clients
        /\ r.scheduled_at = NULL
        /\ r.depends_on = {}
        /\ r.max_retries = 1}

DispatchUpdateRequest ==
    {r \in UpdateJobRequest :
        r.status \in {RUNNING, FAILED} \/ r.priority # NULL}

NextDispatch ==
    \/ \E req \in DispatchCreateRequest :
          create_job(req) /\ logged_lpush
             /\ UNCHANGED <<peer_gone, calls, delivered, advisor, stalled,
                   client_subscriptions, test_runs>>
    \/ \E id \in 1..Len(jobs), req \in DispatchUpdateRequest :
          update_job(id, req) /\ UNCHANGED beyond
    \/ \E id \in 1..Len(jobs) : cancel_job(id) /\ UNCHANGED beyond
    \/ \E id \in 1..Len(jobs) :
          retry_job(id) /\ logged_lpush
             /\ UNCHANGED <<peer_gone, calls, delivered, advisor, stalled,
                   client_subscriptions, test_runs>>
    \/ claim

\* ------------------------------------------------------------ subscribers
\* Two WebSocket objects, so that one list can hold a client's own socket
\* next to a global one.
BroadcastSockets == {"w1", "w2"}

\* The peer of a registered socket goes away.  From now on send_json on it
\* raises; the handler learns of it (WebSocketDisconnect) only later.
peer_close(ws) ==
    /\ wsKey[ws] \notin {NoneStr, CLOSED}
    /\ ws \notin peer_gone
    /\ peer_gone' = peer_gone \cup {ws}
    /\ UNCHANGED <<jobs, tiers, active_connections, wsKey, now, resp, sent,
                   dispatch_log, calls, delivered, advisor, stalled,
                   client_subscriptions, test_runs>>

\* the server one clock tick before Init, with two sockets to be accepted
InitBroadcast ==
    /\ jobs = <<>>
    /\ tiers = [p \in JobPriority |-> <<>>]
    /\ active_connections = << >>
    /\ wsKey = [w \in BroadcastSockets |-> NoneStr]
    /\ now = 0
    /\ resp = [op |-> "init", code |-> 0]
    /\ sent = <<>>
    /\ peer_gone = {}
    /\ dispatch_log = <<>>
    /\ calls = <<>>
    /\ delivered = <<>>
    /\ advisor = NoAdvice
    /\ stalled = {}
    /\ client_subscriptions = << >>
    /\ test_runs = <<>>

BroadcastCreateRequest ==
    {r \in DispatchCreateRequest : r.priority = NORMAL}

BroadcastUpdateRequest == {r \in UpdateJobRequest : r.status = RUNNING}

NextBroadcast ==
    \/ \E req \in BroadcastCreateRequest :
          create_job(req) /\ UNCHANGED beyond
    \/ \E id \in 1..Len(jobs), req \in BroadcastUpdateRequest :
          update_job(id, req) /\ UNCHANGED beyond
    \/ \E id \in 1..Len(jobs) : cancel_job(id) /\ UNCHANGED beyond
    \/ \E id \in 1..Len(jobs) : retry_job(id) /\ UNCHANGED beyond
    \/ \E ws \in BroadcastSockets, key \in ConnKeys :
          connect(ws, key) /\ UNCHANGED beyond
    \/ \E ws \in BroadcastSockets : disconnect(ws) /\ UNCHANGED beyond
    \/ \E ws \in BroadcastSockets : peer_close(ws)

\* ------------------------------------------------- subscribers of two clients
\* /ws/{client_id} registers a socket under whatever client_id its path
\* names: the job's client, "global", or another client.
IsolationSockets == {"w1", "w2", "w3"}
IsolationKeys == ConnKeys \cup {OtherClient}

InitIsolation ==
    /\ jobs = <<>>
    /\ tiers = [p \in JobPriority |-> <<>>]
    /\ active_connections = << >>
    /\ wsKey = [w \in IsolationSockets |-> NoneStr]
    /\ now = 0
    /\ resp = [op |-> "init", code |-> 0]
    /\ sent = <<>>
    /\ peer_gone = {}
    /\ dispatch_log = <<>>
    /\ calls = <<>>
    /\ delivered = <<>>
    /\ advisor = NoAdvice
    /\ stalled = {}
    /\ client_subscriptions = << >>
    /\ test_runs = <<>>

NextIsolation ==
    \/ \E req \in BroadcastCreateRequest :
          create_job(req) /\ UNCHANGED beyond
    \/ \E id \in 1..Len(jobs) : cancel_job(id) /\ UNCHANGED beyond
    \/ \E ws \in IsolationSockets, key \in IsolationKeys :
          connect(ws, key) /\ UNCHANGED beyond
    \/ \E ws \in IsolationSockets : disconnect(ws) /\ UNCHANGED beyond

\* ----------------------------------------------------------- dependencies
\* creations whose depends_on lists stored jobs and the id the new job
\* itself will get
DepsCreateRequest ==
    {[r EXCEPT !.depends_on = d] :
        r \in BroadcastCreateRequest, d \in SUBSET (1..(Len(jobs) + 1))}

NextDeps ==
    \/ \E req \in DepsCreateRequest : create_job(req) /\ UNCHANGED beyond
    \/ \E id \in 1..Len(jobs), req \in UpdateJobRequest :
          update_job(id, req) /\ UNCHANGED beyond
    \/ \E id \in 1..Len(jobs) : cancel_job(id) /\ UNCHANGED beyond
    \/ \E id \in 1..Len(jobs) : retry_job(id) /\ UNCHANGED beyond

\* ------------------------------------------------- update_job, step by step
\* update_job is a coroutine: it is suspended at its SELECT, at its UPDATE
\* and in the broadcast, and other requests run meanwhile.  A call is
\* [job, req, pc, existing, row, commit]: existing is the row the SELECT
\* returned, row the one the UPDATE returned, commit the time of the UPDATE.

\* send_json calls that went through, as events with the time of the write
Received(msgs, commit) ==
    LET got == SelectSeq(msgs, LAMBDA m : m.ok)
    IN  [i \in 1..Len(got) |->
            [ws |-> got[i].ws, job |-> got[i].job, commit |-> commit]]

\* delivered after a handler that ran as one step at time now
logged_delivery == delivered' = delivered \o Received(sent', now)

\* "existing = await db.fetchrow(SELECT ...)" up to "if not updates"
update_job_select(job_id, req) ==
    /\ Len(calls) < MaxCalls
    /\ Exists(job_id)
    /\ ~no_updates(req)
    /\ calls' = Append(calls, [job |-> job_id, req |-> req, pc |-> "selected",
                               existing |-> jobs[job_id],
                               row |-> jobs[job_id], commit |-> NULL])
    /\ UNCHANGED <<jobs, tiers, active_connections, wsKey, now, resp, sent,
                   peer_gone, dispatch_log, delivered, advisor, stalled,
                   client_subscriptions, test_runs>>

\* row_to_update taking the row the call's SELECT returned
row_to_update_as_selected(c) == c.existing

\* the row the UPDATE statement of a call changes: the stored one
row_to_update(c) == jobs[c.job]

\* "row = await db.fetchrow(UPDATE ... RETURNING *)"
update_job_write(i) ==
    LET c   == calls[i]
        row == updated_row(row_to_update(c), c.req)
    IN  /\ now < MaxTime
        /\ c.pc = "selected"
        /\ jobs' = [jobs EXCEPT ![c.job] = row]
        /\ calls' = [calls EXCEPT ![i] =
                        [c EXCEPT !.pc = "updated", !.row = row,
                                  !.commit = now]]
        /\ now' = now + 1
        /\ UNCHANGED <<tiers, active_connections, wsKey, resp, sent,
                       peer_gone, dispatch_log, delivered, advisor, stalled,
                   client_subscriptions, test_runs>>

\* "await manager.broadcast_job_update(...)" and the return
update_job_broadcast(i) ==
    LET c == calls[i]
    IN  /\ c.pc = "updated"
        /\ sent' = broadcast_job_update(active_connections, c.job,
                                        c.row.client_id, c.row.status)
        /\ active_connections' =
               broadcast_to_client(active_connections, c.row.client_id)
        /\ delivered' = delivered \o Received(sent', c.commit)
        /\ resp' = [op |-> "update", code |-> 200, job |-> c.job]
        /\ calls' = [calls EXCEPT ![i] = [c EXCEPT !.pc = "done"]]
        /\ UNCHANGED <<jobs, tiers, wsKey, now, peer_gone, dispatch_log,
                       advisor, stalled,
                   client_subscriptions, test_runs>>

ConcurrentUpdateRequest ==
    {r \in UpdateJobRequest : r.config # NoneStr \/ r.metadata # NoneStr}

NextConcurrent ==
    \/ \E req \in BroadcastCreateRequest :
          create_job(req) /\ logged_delivery
             /\ UNCHANGED <<peer_gone, dispatch_log, calls, advisor, stalled,
                   client_subscriptions, test_runs>>
    \/ \E ws \in Sockets, key \in ConnKeys :
          connect(ws, key) /\ UNCHANGED beyond
    \/ \E id \in 1..Len(jobs), req \in ConcurrentUpdateRequest :
          update_job_select(id, req)
    \/ \E i \in 1..Len(calls) : update_job_write(i)
    \/ \E i \in 1..Len(calls) : update_job_broadcast(i)

\* ------------------------------------------- what a subscriber may send
\* websocket_endpoint on {"type": "subscribe", "job_id": ...}: the job id
\* is appended to the list kept under id(websocket)
subscribe(ws, job_id) ==
    /\ now < MaxTime
    /\ wsKey[ws] \notin {NoneStr, CLOSED}
    /\ client_subscriptions' =
          (ws :> Append(Conns(client_subscriptions, ws), job_id))
             @@ client_subscriptions
    /\ now' = now + 1
    /\ UNCHANGED <<jobs, tiers, active_connections, wsKey, resp, sent,
                   peer_gone, dispatch_log, calls, delivered, advisor,
                   stalled, test_runs>>

\* websocket_endpoint on a text that is JSON but not an object: message.get
\* raises AttributeError, which neither except clause catches; the handler
\* ends and the socket is closed without manager.disconnect
handler_fail(ws) ==
    /\ now < MaxTime
    /\ wsKey[ws] \notin {NoneStr, CLOSED}
    /\ wsKey' = [wsKey EXCEPT ![ws] = CLOSED]
    /\ now' = now + 1
    /\ UNCHANGED <<jobs, tiers, active_connections, resp, sent,
                   peer_gone, dispatch_log, calls, delivered, advisor,
                   stalled, client_subscriptions, test_runs>>

NextHandler ==
    \/ \E req \in BroadcastCreateRequest :
          create_job(req) /\ UNCHANGED beyond
    \/ \E id \in 1..Len(jobs) : cancel_job(id) /\ UNCHANGED beyond
    \/ \E ws \in BroadcastSockets, key \in ConnKeys :
          connect(ws, key) /\ UNCHANGED beyond
    \/ \E ws \in BroadcastSockets : disconnect(ws) /\ UNCHANGED beyond
    \/ \E ws \in BroadcastSockets, id \in JobIds : subscribe(ws, id)
    \/ \E ws \in BroadcastSockets : handler_fail(ws)

\* ------------------------------------------- the broadcast, send by send
\* broadcast_to_client awaits each send_json in turn.  A call that has
\* entered the loop is [..., pc |-> "sending", stored, snapshot, next]:
\* the loop runs over the stored list of the client (stored = TRUE; what is
\* appended to it meanwhile is iterated too), or over a list of its own
\* when the client has no list; next is the position of the iterator.

\* the peer of a registered socket stops reading: from now on a send_json
\* to it does not return
stall(ws) ==
    /\ wsKey[ws] \notin {NoneStr, CLOSED}
    /\ ws \notin stalled
    /\ stalled' = stalled \cup {ws}
    /\ UNCHANGED <<jobs, tiers, active_connections, wsKey, now, resp, sent,
                   peer_gone, dispatch_log, calls, delivered, advisor,
                   client_subscriptions, test_runs>>

\* the list the loop of a call iterates
connections(c) ==
    IF c.stored THEN Conns(active_connections, c.row.client_id)
    ELSE c.snapshot

\* update_job from "await manager.broadcast_job_update" to the for loop
update_job_extend(i) ==
    LET c   == calls[i]
        cid == c.row.client_id
    IN  /\ c.pc = "updated"
        /\ active_connections' = broadcast_to_client(active_connections, cid)
        /\ calls' = [calls EXCEPT ![i] =
               [job |-> c.job, req |-> c.req, pc |-> "sending",
                existing |-> c.existing, row |-> c.row, commit |-> c.commit,
                stored |-> cid \in DOMAIN active_connections,
                snapshot |-> broadcast_targets(active_connections, cid),
                next |-> 1]]
        /\ sent' = <<>>
        /\ UNCHANGED <<jobs, tiers, wsKey, now, resp, peer_gone, dispatch_log,
                       delivered, advisor, stalled,
                   client_subscriptions, test_runs>>

\* one "await connection.send_json(message)" that returns or raises
update_job_send_json(i) ==
    LET c  == calls[i]
        ws == connections(c)[c.next]
    IN  /\ c.pc = "sending"
        /\ c.next <= Len(connections(c))
        /\ ws \notin stalled
        /\ sent' = Append(sent,
               [ws |-> ws, job |-> c.job, status |-> c.row.status,
                ok |-> wsKey[ws] # CLOSED /\ ws \notin peer_gone])
        /\ calls' = [calls EXCEPT ![i] = [c EXCEPT !.next = @ + 1]]
        /\ UNCHANGED <<jobs, tiers, active_connections, wsKey, now, resp,
                       peer_gone, dispatch_log, delivered, advisor, stalled,
                   client_subscriptions, test_runs>>

\* the loop is through: "return job"
update_job_return(i) ==
    LET c == calls[i]
    IN  /\ c.pc = "sending"
        /\ c.next > Len(connections(c))
        /\ resp' = [op |-> "update", code |-> 200, job |-> c.job]
        /\ calls' = [calls EXCEPT ![i] = [c EXCEPT !.pc = "done"]]
        /\ UNCHANGED <<jobs, tiers, active_connections, wsKey, now, sent,
                       peer_gone, dispatch_log, delivered, advisor, stalled,
                   client_subscriptions, test_runs>>

StallUpdateRequest ==
    {r \in ConcurrentUpdateRequest :
        r.config # NoneStr /\ r.metadata = NoneStr}

NextStall ==
    \/ \E req \in BroadcastCreateRequest :
          create_job(req) /\ UNCHANGED beyond
    \/ \E ws \in BroadcastSockets, key \in ConnKeys :
          connect(ws, key) /\ UNCHANGED beyond
    \/ \E ws \in BroadcastSockets : stall(ws)
    \/ \E id \in 1..Len(jobs), req \in StallUpdateRequest :
          update_job_select(id, req)
    \/ \E i \in 1..Len(calls) : update_job_write(i)
    \/ \E i \in 1..Len(calls) : update_job_extend(i)
    \/ \E i \in 1..Len(calls) : update_job_send_json(i)
    \/ \E i \in 1..Len(calls) : update_job_return(i)

\* A coroutine that can run on does: the UPDATE, the extend, a send_json
\* whose peer reads, the return.  Requests and peers are up to the
\* environment.
FairStall ==
    /\ WF_vars(\E i \in 1..MaxCalls : i <= Len(calls) /\ update_job_write(i))
    /\ WF_vars(\E i \in 1..MaxCalls : i <= Len(calls) /\ update_job_extend(i))
    /\ \A i \in 1..MaxCalls :
          WF_vars(i <= Len(calls) /\ update_job_send_json(i))
    /\ WF_vars(\E i \in 1..MaxCalls : i <= Len(calls) /\ update_job_return(i))

\* --------------------------------------------- the server left to itself
\* create_job and retry_job are coroutines as well: each is suspended
\* between its INSERT / UPDATE and its redis.lpush.  The process may die
\* there; the table and the Redis lists outlive it, the coroutines and the
\* ConnectionManager do not.  A call is kept in calls as for update_job,
\* with pc "inserted" or "retried" until its lpush and broadcast have run.

\* time passes without a request
tick ==
    /\ now < MaxTime
    /\ now' = now + 1
    /\ UNCHANGED <<jobs, tiers, active_connections, wsKey, resp, sent,
                   peer_gone, dispatch_log, calls, delivered, advisor, stalled,
                   client_subscriptions, test_runs>>

\* create_job up to and including its INSERT
create_job_insert(req) ==
    LET job_id == Len(jobs) + 1
        sched  == IF req.scheduled_at = NULL THEN now ELSE req.scheduled_at
        row    == new_row(req, sched)
    IN  /\ now < MaxTime
        /\ Len(calls) < MaxCalls
        /\ req.client_id \in Clients
        /\ deps_exist(req.depends_on)
        /\ Len(jobs) < MaxJobs
        /\ jobs' = Append(jobs, row)
        /\ calls' = Append(calls, [job |-> job_id, req |-> NoUpdate,
                                   pc |-> "inserted", existing |-> row,
                                   row |-> row, commit |-> now])
        /\ now' = now + 1
        /\ UNCHANGED <<tiers, active_connections, wsKey, resp, sent,
                       peer_gone, dispatch_log, delivered, advisor, stalled,
                   client_subscriptions, test_runs>>

\* create_job from "if initial_status == JobStatus.QUEUED" to its return
create_job_push(i) ==
    LET c == calls[i]
    IN  /\ c.pc = "inserted"
        /\ tiers' = IF c.row.status = QUEUED
                    THEN lpush(tiers, c.row.priority, c.job)
                    ELSE tiers
        /\ sent' = broadcast_job_update(active_connections, c.job,
                                        c.row.client_id, c.row.status)
        /\ active_connections' =
               broadcast_to_client(active_connections, c.row.client_id)
        /\ resp' = [op |-> "create", code |-> 201, job |-> c.job]
        /\ calls' = [calls EXCEPT ![i] = [c EXCEPT !.pc = "done"]]
        /\ UNCHANGED <<jobs, wsKey, now, peer_gone, dispatch_log, delivered,
                       advisor, stalled,
                   client_subscriptions, test_runs>>

\* retry_job up to and including its UPDATE
retry_job_update(job_id) ==
    /\ now < MaxTime
    /\ Len(calls) < MaxCalls
    /\ Exists(job_id)
    /\ retry_allowed(jobs[job_id])
    /\ LET row == retried_row(jobs[job_id])
       IN  /\ jobs' = [jobs EXCEPT ![job_id] = row]
           /\ calls' = Append(calls, [job |-> job_id, req |-> NoUpdate,
                                      pc |-> "retried",
                                      existing |-> jobs[job_id],
                                      row |-> row, commit |-> now])
    /\ now' = now + 1
    /\ UNCHANGED <<tiers, active_connections, wsKey, resp, sent,
                   peer_gone, dispatch_log, delivered, advisor, stalled,
                   client_subscriptions, test_runs>>

\* retry_job from its redis.lpush to its return
retry_job_push(i) ==
    LET c == calls[i]
    IN  /\ c.pc = "retried"
        /\ tiers' = lpush(tiers, c.row.priority, c.job)
        /\ sent' = broadcast_job_update(active_connections, c.job,
                                        c.row.client_id, QUEUED)
        /\ active_connections' =
               broadcast_to_client(active_connections, c.row.client_id)
        /\ resp' = [op |-> "retry", code |-> 200, job |-> c.job]
        /\ calls' = [calls EXCEPT ![i] = [c EXCEPT !.pc = "done"]]
        /\ UNCHANGED <<jobs, wsKey, now, peer_gone, dispatch_log, delivered,
                       advisor, stalled,
                   client_subscriptions, test_runs>>

\* The process dies while a call is suspended and is started again
\* (lifespan): the suspended calls are gone, manager is a new and empty
\* ConnectionManager, every accepted socket is closed.
process_fail ==
    /\ \E i \in 1..Len(calls) : calls[i].pc \in {"inserted", "retried"}
    /\ calls' = [i \in 1..Len(calls) |->
                    IF calls[i].pc = "done" THEN calls[i]
                    ELSE [calls[i] EXCEPT !.pc = "lost"]]
    /\ active_connections' = << >>
    /\ wsKey' = [w \in DOMAIN wsKey |->
                    IF wsKey[w] = NoneStr THEN NoneStr ELSE CLOSED]
    /\ UNCHANGED <<jobs, tiers, now, resp, sent, peer_gone, dispatch_log,
                   delivered, advisor, stalled,
                   client_subscriptions, test_runs>>

\* Requests that declare a timeout short enough to run out: one clock tick
\* counts as one second of timeout_seconds.
LiveCreateRequest ==
    {[r EXCEPT !.timeout_seconds = ShortTimeout] :
        r \in {q \in CreateJobRequest :
                  /\ q.client_id \in Clients
                  /\ q.priority = NORMAL
                  /\ q.scheduled_at # now
                  /\ q.depends_on = {}
                  /\ q.max_retries = 1}}

NextLive ==
    \/ \E req \in LiveCreateRequest : create_job_insert(req)
    \/ \E i \in 1..Len(calls) : create_job_push(i)
    \/ \E id \in 1..Len(jobs) : retry_job_update(id)
    \/ \E i \in 1..Len(calls) : retry_job_push(i)
    \/ process_fail
    \/ \E id \in 1..Len(jobs), req \in BroadcastUpdateRequest :
          update_job(id, req) /\ UNCHANGED beyond
    \/ \E id \in 1..Len(jobs) : cancel_job(id) /\ UNCHANGED beyond
    \/ \E ws \in BroadcastSockets, key \in ConnKeys :
          connect(ws, key) /\ UNCHANGED beyond
    \/ \E ws \in BroadcastSockets : disconnect(ws) /\ UNCHANGED beyond
    \/ \E ws \in BroadcastSockets : peer_close(ws)
    \/ tick

\* What goes on without anybody asking: time passes, and a suspended
\* coroutine of a living process runs on.  Requests, peers and crashes are
\* up to the environment.
FairLive ==
    /\ WF_vars(tick)
    /\ WF_vars(\E i \in 1..MaxCalls : i <= Len(calls) /\ create_job_push(i))
    /\ WF_vars(\E i \in 1..MaxCalls : i <= Len(calls) /\ retry_job_push(i))

\* ------------------------------------------------------- the Toast router
\* class JobType
JobType ==
    {"menu_build", "menu_sync", "item_create", "item_update", "modifier_sync",
     "health_check", "golden_copy", "classification", "report_generation",
     "backup"}

\* redis.lpush on a key of any name: Redis makes the list if there is none
lpush_any_key(t, key, id) ==
    IF key \in DOMAIN t THEN lpush(t, key, id) ELSE (key :> <<id>>) @@ t

\* A row of automation_jobs from an INSERT of the Toast router, which names
\* client_id, job_type, status, priority, config and (create_toast_job)
\* scheduled_at; the other columns are as _row_to_job_response reads a row
\* that lacks them.
toast_row(client_id, job_type, priority, config, sched) ==
    [client_id |-> client_id, job_type |-> job_type, status |-> QUEUED,
     priority |-> priority, config |-> config, scheduled_at |-> sched,
     depends_on |-> {}, retry_on_failure |-> TRUE, max_retries |-> 3,
     timeout_seconds |-> DefaultTimeout, metadata |-> NoneStr,
     created_at |-> now, updated_at |-> now,
     started_at |-> NULL, completed_at |-> NULL,
     result |-> NoneStr, error |-> NoneStr,
     progress |-> 0, progress_message |-> NoneStr, retry_count |-> 0]

\* ToastJobRequest: job_type is any string, priority any integer; the
\* integration belongs to a client of the clients table
ToastJobRequest ==
    [client_id : Clients,
     job_type : {"menu_sync", "modifier_update"},
     priority : {NORMAL, 7},
     config : DocInputs,
     scheduled_at : {NULL, now + 2}]

\* POST /toast/jobs
create_toast_job(req) ==
    LET job_id == Len(jobs) + 1
        sched  == IF req.scheduled_at = NULL THEN now ELSE req.scheduled_at
    IN  /\ now < MaxTime
        /\ Len(jobs) < MaxJobs
        /\ jobs' = Append(jobs, toast_row(req.client_id, req.job_type,
                                          req.priority, req.config, sched))
        /\ tiers' = lpush_any_key(tiers, req.priority, job_id)
        /\ resp' = [op |-> "create_toast_job", code |-> 200, job |-> job_id]
        /\ sent' = <<>>
        /\ now' = now + 1
        /\ UNCHANGED <<active_connections, wsKey>>

\* POST /toast/integrations/{id}/sync (sync_menus)
sync_menus(client_id) ==
    LET job_id == Len(jobs) + 1
    IN  /\ now < MaxTime
        /\ Len(jobs) < MaxJobs
        /\ jobs' = Append(jobs, toast_row(client_id, "menu_sync", HIGH,
                                          "d1", NULL))
        /\ tiers' = lpush_any_key(tiers, HIGH, job_id)
        /\ resp' = [op |-> "sync_menus", code |-> 200, job |-> job_id]
        /\ sent' = <<>>
        /\ now' = now + 1
        /\ UNCHANGED <<active_connections, wsKey>>

NextToast ==
    \/ \E req \in DispatchCreateRequest :
          create_job(req) /\ UNCHANGED beyond
    \/ \E req \in ToastJobRequest :
          create_toast_job(req) /\ UNCHANGED beyond
    \/ \E c \in Clients : sync_menus(c) /\ UNCHANGED beyond
    \/ \E id \in 1..Len(jobs) : cancel_job(id) /\ UNCHANGED beyond
    \/ \E id \in 1..Len(jobs) : retry_job(id) /\ UNCHANGED beyond

\* ------------------------------------------------- the QA test-run router
\* test_runs holds one record per run, the run id being its position. Beside
\* the fields of the dict the record keeps the background task of the run:
\* pc is "scheduled" from add_task until the task starts, "execute_suite"
\* while it is suspended in the asyncio.sleep of the suite at position
\* suite, and "returned" when the task is over; stats is results["stats"].
\* No socket is connected to the QA router, so broadcast_run_update sends
\* nothing and suspends nowhere, and the except branch of execute_test_run
\* has nothing that raises.
available_suites == <<"Toast Login Suite", "Toast Menu Suite">>

\* TestRunConfig: the suites asked for (none: all that are available) and
\* fail_fast
TestRunConfig ==
    [suites : {<<>>, <<"Toast Login Suite">>}, fail_fast : BOOLEAN]

\* the result of execute_suite
execute_suite(suite_name) ==
    [name |-> suite_name, total |-> 8, passed |-> 7, failed |-> 0,
     skipped |-> 1]

\* POST /qa/runs
create_test_run(config) ==
    LET suites_to_run ==
            IF config.suites # <<>> THEN config.suites ELSE available_suites
        run_id == Len(test_runs) + 1
    IN  /\ now < MaxTime
        /\ Len(test_runs) < MaxRuns
        /\ test_runs' = Append(test_runs,
               [status |-> QUEUED, fail_fast |-> config.fail_fast,
                created_at |-> now, started_at |-> NULL,
                completed_at |-> NULL, suites |-> suites_to_run,
                stats |-> NULL, pc |-> "scheduled", suite |-> 0,
                failed |-> 0])
        /\ resp' = [op |-> "create_test_run", code |-> 200, run |-> run_id]
        /\ now' = now + 1
    /\ UNCHANGED <<jobs, tiers, active_connections, wsKey, sent, peer_gone,
                   dispatch_log, calls, delivered, advisor, stalled,
                   client_subscriptions>>

\* execute_test_run from its start to the sleep of its first suite
execute_test_run(run_id) ==
    /\ test_runs[run_id].pc = "scheduled"
    /\ test_runs' = [test_runs EXCEPT ![run_id] =
           [@ EXCEPT !.status = RUNNING, !.started_at = now,
                     !.pc = "execute_suite", !.suite = 1]]
    /\ UNCHANGED <<jobs, tiers, active_connections, wsKey, sent, peer_gone,
                   dispatch_log, calls, delivered, advisor, stalled,
                   client_subscriptions, now, resp>>

\* a suite that is not the last returns: its result is added and the next
\* suite begins
execute_test_run_next(run_id) ==
    LET run == test_runs[run_id]
        suite_result == execute_suite(run.suites[run.suite])
    IN  /\ run.pc = "execute_suite"
        /\ run.suite < Len(run.suites)
        /\ ~(run.fail_fast /\ suite_result.failed > 0)
        /\ test_runs' = [test_runs EXCEPT ![run_id] =
               [@ EXCEPT !.failed = @ + suite_result.failed,
                         !.suite = @ + 1]]
    /\ UNCHANGED <<jobs, tiers, active_connections, wsKey, sent, peer_gone,
                   dispatch_log, calls, delivered, advisor, stalled,
                   client_subscriptions, now, resp>>

\* the last suite returns, or fail_fast breaks the loop: the status of the
\* run is written
execute_test_run_return(run_id) ==
    LET run == test_runs[run_id]
        suite_result == execute_suite(run.suites[run.suite])
        failed == run.failed + suite_result.failed
    IN  /\ run.pc = "execute_suite"
        /\ \/ run.suite = Len(run.suites)
           \/ run.fail_fast /\ suite_result.failed > 0
        /\ test_runs' = [test_runs EXCEPT ![run_id] =
               [@ EXCEPT !.status = IF failed = 0 THEN COMPLETED ELSE FAILED,
                         !.failed = failed, !.stats = failed,
                         !.completed_at = now, !.pc = "returned"]]
    /\ UNCHANGED <<jobs, tiers, active_connections, wsKey, sent, peer_gone,
                   dispatch_log, calls, delivered, advisor, stalled,
                   client_subscriptions, now, resp>>

\* POST /qa/runs/{run_id}/cancel
cancel_test_run(run_id) ==
    /\ now < MaxTime
    /\ IF run_id \notin 1..Len(test_runs)
       THEN /\ resp' = [op |-> "cancel_test_run", code |-> 404,
                        run |-> run_id]
            /\ UNCHANGED test_runs
       ELSE IF test_runs[run_id].status \notin {QUEUED, RUNNING}
       THEN /\ resp' = [op |-> "cancel_test_run", code |-> 400,
                        run |-> run_id]
            /\ UNCHANGED test_runs
       ELSE /\ test_runs' = [test_runs EXCEPT ![run_id] =
                   [@ EXCEPT !.status = CANCELLED, !.completed_at = now]]
            /\ resp' = [op |-> "cancel_test_run", code |-> 200,
                        run |-> run_id]
    /\ now' = now + 1
    /\ UNCHANGED <<jobs, tiers, active_connections, wsKey, sent, peer_gone,
                   dispatch_log, calls, delivered, advisor, stalled,
                   client_subscriptions>>

NextQA ==
    \/ \E config \in TestRunConfig : create_test_run(config)
    \/ \E run_id \in 1..Len(test_runs) : execute_test_run(run_id)
    \/ \E run_id \in 1..Len(test_runs) : execute_test_run_next(run_id)
    \/ \E run_id \in 1..Len(test_runs) : execute_test_run_return(run_id)
    \/ \E run_id \in 1..MaxRuns : cancel_test_run(run_id)

\* ------------------------------------- calls that race for the same job
\* retry_job and cancel_job begin with their UPDATE ... WHERE status IN
\* (...) RETURNING *, one statement that tests and writes the row at once.
\* A call whose UPDATE returned a row is suspended before its lpush and
\* broadcast (pc "retried", "cancelled"); a call whose UPDATE returned no
\* row answers 400 (pc "retry_rejected", "cancel_rejected").

\* retry_job whose UPDATE matches no row
retry_job_reject(job_id) ==
    /\ now < MaxTime
    /\ Len(calls) < MaxCalls
    /\ Exists(job_id)
    /\ ~retry_allowed(jobs[job_id])
    /\ calls' = Append(calls, [job |-> job_id, req |-> NoUpdate,
                               pc |-> "retry_rejected",
                               existing |-> jobs[job_id],
                               row |-> jobs[job_id], commit |-> now])
    /\ resp' = [op |-> "retry", code |-> 400, job |-> job_id]
    /\ now' = now + 1
    /\ UNCHANGED <<jobs, tiers, active_connections, wsKey, sent,
                   peer_gone, dispatch_log, delivered, advisor, stalled,
                   client_subscriptions, test_runs>>

\* cancel_job up to and including its UPDATE
cancel_job_update(job_id) ==
    /\ now < MaxTime
    /\ Len(calls) < MaxCalls
    /\ Exists(job_id)
    /\ cancel_allowed(jobs[job_id].status)
    /\ LET row == cancelled_row(jobs[job_id])
       IN  /\ jobs' = [jobs EXCEPT ![job_id] = row]
           /\ calls' = Append(calls, [job |-> job_id, req |-> NoUpdate,
                                      pc |-> "cancelled",
                                      existing |-> jobs[job_id],
                                      row |-> row, commit |-> now])
    /\ now' = now + 1
    /\ UNCHANGED <<tiers, active_connections, wsKey, resp, sent,
                   peer_gone, dispatch_log, delivered, advisor, stalled,
                   client_subscriptions, test_runs>>

\* cancel_job whose UPDATE matches no row
cancel_job_reject(job_id) ==
    /\ now < MaxTime
    /\ Len(calls) < MaxCalls
    /\ Exists(job_id)
    /\ ~cancel_allowed(jobs[job_id].status)
    /\ calls' = Append(calls, [job |-> job_id, req |-> NoUpdate,
                               pc |-> "cancel_rejected",
                               existing |-> jobs[job_id],
                               row |-> jobs[job_id], commit |-> now])
    /\ resp' = [op |-> "cancel", code |-> 400, job |-> job_id]
    /\ now' = now + 1
    /\ UNCHANGED <<jobs, tiers, active_connections, wsKey, sent,
                   peer_gone, dispatch_log, delivered, advisor, stalled,
                   client_subscriptions, test_runs>>

\* cancel_job from its broadcast to its return
cancel_job_broadcast(i) ==
    LET c == calls[i]
    IN  /\ c.pc = "cancelled"
        /\ sent' = broadcast_job_update(active_connections, c.job,
                                        c.row.client_id, CANCELLED)
        /\ active_connections' =
               broadcast_to_client(active_connections, c.row.client_id)
        /\ delivered' = delivered \o Received(sent', c.commit)
        /\ resp' = [op |-> "cancel", code |-> 200, job |-> c.job]
        /\ calls' = [calls EXCEPT ![i] = [c EXCEPT !.pc = "done"]]
        /\ UNCHANGED <<jobs, tiers, wsKey, now, peer_gone, dispatch_log,
                       advisor, stalled, client_subscriptions, test_runs>>

\* the calls in flight or answered so far are all retries, or all cancels,
\* of job id
RetryCall(c) ==
    c.pc \in {"retried", "retry_rejected"}
       \/ (c.pc = "done" /\ c.row.status = QUEUED)
CancelCall(c) ==
    c.pc \in {"cancelled", "cancel_rejected"}
       \/ (c.pc = "done" /\ c.row.status = CANCELLED)
RetryRace(id) ==
    \A i \in 1..Len(calls) : calls[i].job = id /\ RetryCall(calls[i])
CancelRace(id) ==
    \A i \in 1..Len(calls) : calls[i].job = id /\ CancelCall(calls[i])

\* A job is created and possibly cancelled, a socket subscribes; then calls
\* of one kind for one job arrive while the earlier ones are still running,
\* and nothing else is requested.
NextRace ==
    \/ \E req \in BroadcastCreateRequest :
          calls = <<>> /\ create_job(req) /\ UNCHANGED beyond
    \/ \E id \in 1..Len(jobs) :
          calls = <<>> /\ cancel_job(id) /\ UNCHANGED beyond
    \/ \E ws \in BroadcastSockets, key \in ConnKeys :
          calls = <<>> /\ connect(ws, key) /\ UNCHANGED beyond
    \/ \E id \in 1..Len(jobs) : RetryRace(id) /\ retry_job_update(id)
    \/ \E id \in 1..Len(jobs) : RetryRace(id) /\ retry_job_reject(id)
    \/ \E i \in 1..Len(calls) : retry_job_push(i)
    \/ \E id \in 1..Len(jobs) : CancelRace(id) /\ cancel_job_update(id)
    \/ \E id \in 1..Len(jobs) : CancelRace(id) /\ cancel_job_reject(id)
    \/ \E i \in 1..Len(calls) : cancel_job_broadcast(i)

\* ------------------------------------------ requests to the intelligence router
\* utcnow() of a request: on the hour or not, with and without a sub-second
\* part
NowInputs ==
    {datetime(24, m, sec, us) : m \in {0, 45}, sec \in {0, 7}, us \in {0, 5}}

\* MAX(completed_at) of a job type: None, or a time that makes
\* last_run + interval fall before, into or after the hour of the request
LastRunInputs ==
    {NoDatetime} \cup
    {datetime(h, m, 0, us) : h \in {0, 10, 18, 19}, m \in {0, 50}, us \in {0, 5}}

\* rows counted by the busy_periods query in each hour of the window: one
\* short of busy, or busy
JobCountInputs(at) ==
    [at.hour..(at.hour + HoursAhead) -> {BusyJobCount, BusyJobCount + 1}]

ScheduleRequests ==
    UNION {[kind : {"schedule"}, at : {at}, last_run : LastRunInputs,
            job_type : {"health_check", "menu_sync", "golden_copy",
                        "backup", "inventory"},
            job_count : JobCountInputs(at)] : at \in NowInputs}

\* DecisionRequest.constraints of an automation-viability decision
DecisionRequests ==
    [kind : {"decide"},
     frequency_per_month : {NULL, 0, 2, 4},
     manual_time_minutes : {NULL, 15, 60},
     automation_effort_hours : {NULL, 0, 1, 2, 3, 4, 6, 7, 12, 13}]

\* pieces of a context: the keywords in mixed case, inside a longer word and
\* cut short, and a word that is none of them
ContextWords ==
    {<<"W", "h", "e", "n">>,
     <<"w", "h", "e", "n", "e", "v", "e", "r">>,
     <<"S", "c", "h", "e", "d", "u", "l", "i", "n", "g">>,
     <<"P", "R", "I", "O", "R", "I", "T", "Y">>,
     <<"p", "r", "i", "o", "r", "i", "t", "i", "z", "a", "t", "i", "o", "n">>,
     <<"A", "u", "t", "o", "m", "a", "t", "e">>,
     <<"a", "u", "t", "o", "m", "a", "t", "i", "o", "n">>,
     <<"r", "e", "v", "i", "e", "w">>,
     <<"p", "r", "i", "o", "r">>,
     <<"a", "u", "t", "o">>,
     <<"W", "H", "E", "N", "?">>}

\* request.context: one word, or two words with a blank between them
Contexts ==
    ContextWords \cup
    {a \o <<" ">> \o b : a \in ContextWords, b \in ContextWords}

\* DecisionRequest of POST /decide: the context, the number of options, and
\* the constraints of an automation-viability decision
RouteRequests ==
    [kind : {"route"},
     context : Contexts,
     options : {0, 1},
     frequency_per_month : {NULL},
     manual_time_minutes : {NULL, 60},
     automation_effort_hours : {NULL, 3}]

\* the server with a request to the intelligence router at hand
InitAdvisor ==
    /\ jobs = <<>>
    /\ tiers = [p \in JobPriority |-> <<>>]
    /\ active_connections = << >>
    /\ wsKey = [w \in Sockets |-> NoneStr]
    /\ now = 1
    /\ resp = [op |-> "init", code |-> 0]
    /\ sent = <<>>
    /\ peer_gone = {}
    /\ dispatch_log = <<>>
    /\ calls = <<>>
    /\ delivered = <<>>
    /\ advisor \in {[op |-> "idle", req |-> r] :
                       r \in ScheduleRequests \cup DecisionRequests
                             \cup RouteRequests}
    /\ stalled = {}
    /\ client_subscriptions = << >>
    /\ test_runs = <<>>

\* GET /schedule/recommendations: the recommendation for one client and one
\* job type
get_schedule_recommendations ==
    /\ advisor.op = "idle"
    /\ advisor.req.kind = "schedule"
    /\ LET r == advisor.req
       IN  advisor' = [op |-> "schedule", req |-> r,
                       candidate |-> candidate_run(r.at, r.last_run,
                                                   r.job_type),
                       out |-> recommended_time(r.at, r.last_run, r.job_type,
                                                r.job_count)]
    /\ UNCHANGED <<jobs, tiers, active_connections, wsKey, now, resp, sent,
                   peer_gone, dispatch_log, calls, delivered, stalled,
                   client_subscriptions, test_runs>>

make_automation_decision ==
    /\ advisor.op = "idle"
    /\ advisor.req.kind = "decide"
    /\ LET r == advisor.req
           frequency == get(r.frequency_per_month, DefaultFrequency)
           manual_time_minutes ==
               get(r.manual_time_minutes, DefaultManualMinutes)
           automation_effort_hours ==
               get(r.automation_effort_hours, DefaultEffortHours)
           payback ==
               payback_months(automation_effort_hours,
                   monthly_time_saved(frequency, manual_time_minutes))
       IN  advisor' = [op |-> "decide", req |-> r,
                       out |-> [decision |-> decision(payback),
                                confidence |-> confidence(payback)]]
    /\ UNCHANGED <<jobs, tiers, active_connections, wsKey, now, resp, sent,
                   peer_gone, dispatch_log, calls, delivered, stalled,
                   client_subscriptions, test_runs>>

\* POST /decide
make_decision ==
    /\ advisor.op = "idle"
    /\ advisor.req.kind = "route"
    /\ LET r == advisor.req
       IN  advisor' = [op |-> "route", req |-> r,
                       strategy |-> strategy(r.context),
                       out |-> decide(r)]
    /\ UNCHANGED <<jobs, tiers, active_connections, wsKey, now, resp, sent,
                   peer_gone, dispatch_log, calls, delivered, stalled,
                   client_subscriptions, test_runs>>

NextAdvisor ==
    \/ get_schedule_recommendations
    \/ make_automation_decision
    \/ make_decision


\* =========================================================================
\* Lifecycle edges of section 4.1
AllowedEdge(a, b) ==
    \/ a = PENDING /\ b = QUEUED
    \/ a = QUEUED /\ b = RUNNING
    \/ a = RUNNING /\ b \in {COMPLETED, FAILED, PAUSED}
    \/ a \in {PENDING, QUEUED, RUNNING, PAUSED} /\ b = CANCELLED
    \/ a \in {FAILED, CANCELLED} /\ b = QUEUED

Stored == 1..Len(jobs)

\* C1: every change of a job's status is an allowed edge, and an update whose
\* requested status is not reachable by an allowed edge from the current one
\* fails and leaves the stored job unchanged.
C1_OnlyAllowedEdges ==
    [][/\ \A j \in Stored :
            jobs'[j].status # jobs[j].status
                => AllowedEdge(jobs[j].status, jobs'[j].status)
       /\ \A j \in Stored, req \in UpdateJobRequest :
            (/\ update_job(j, req)
             /\ req.status \notin {NoneStr, jobs[j].status}
             /\ ~AllowedEdge(jobs[j].status, req.status))
                => resp'.code >= 400 /\ jobs' = jobs]_vars

\* C2: when the last incomplete dependency of a PENDING job whose scheduled
\* time has been reached becomes COMPLETED, the same step makes the dependent
\* QUEUED and puts it into the tier of its priority.
C2_DependentActivated ==
    [][\A d \in Stored, j \in Stored :
          (/\ jobs[d].status # COMPLETED /\ jobs'[d].status = COMPLETED
           /\ jobs[j].status = PENDING
           /\ d \in jobs[j].depends_on
           /\ \A e \in jobs[j].depends_on : jobs'[e].status = COMPLETED
           /\ jobs[j].scheduled_at <= now)
              => /\ jobs'[j].status = QUEUED
                 /\ j \in SeqToSet(tiers'[jobs'[j].priority])]_vars

\* C3: a dispatchable job (QUEUED, RUNNING or present in a tier) has every
\* job of its depends_on in status COMPLETED.
C3_DispatchableDepsCompleted ==
    \A j \in Stored :
        (jobs[j].status \in {QUEUED, RUNNING} \/ InTiers(j))
            => \A d \in jobs[j].depends_on : jobs[d].status = COMPLETED

\* The last request was a create that stored a job
Created == resp.op = "create" /\ resp.code = 201

\* C4: a job created with a dependency that is not COMPLETED starts PENDING
\* and is in no tier, whatever its scheduled_at.
C4_IncompleteDepsPending ==
    Created =>
        ((\E d \in jobs[resp.job].depends_on : jobs[d].status # COMPLETED)
            => jobs[resp.job].status = PENDING /\ ~InTiers(resp.job))

C4_Witness ==
    /\ Created
    /\ \E d \in jobs[resp.job].depends_on : jobs[d].status # COMPLETED
    /\ jobs[resp.job].scheduled_at <= jobs[resp.job].created_at
    /\ jobs[resp.job].status = PENDING

\* C5: a job created with no dependency, or with every dependency COMPLETED,
\* starts QUEUED if and only if its scheduled_at is not after the creation
\* time; otherwise it starts PENDING.
C5_ScheduleDecidesInitialStatus ==
    (Created /\ \A d \in jobs[resp.job].depends_on : jobs[d].status = COMPLETED)
        => /\ jobs[resp.job].status \in {QUEUED, PENDING}
           /\ jobs[resp.job].status = QUEUED
                <=> jobs[resp.job].scheduled_at <= jobs[resp.job].created_at

\* The step served a request of kind op (connect and disconnect, the only
\* other steps, change wsKey)
Served(op) == resp'.op = op /\ wsKey' = wsKey

\* C6: a create that names an unknown client, or an unknown job in
\* depends_on, is rejected and changes nothing: no row, no tier entry, no
\* broadcast.  Every create either is rejected without effect, or stores a
\* row whose client and dependencies all had a row before it.
C6_UnknownRefsRejected ==
    [][Served("create") =>
          IF resp'.code = 201
          THEN /\ Len(jobs') = Len(jobs) + 1
               /\ jobs'[Len(jobs')].client_id \in Clients
               /\ \A d \in jobs'[Len(jobs')].depends_on : Exists(d)
          ELSE /\ resp'.code \in {400, 404}
               /\ jobs' = jobs /\ tiers' = tiers
               /\ sent' = <<>>
               /\ active_connections' = active_connections]_vars

C6_Witness ==
    /\ resp.op = "create" /\ resp.code = 400
    /\ Len(jobs) = 1
    /\ tiers[jobs[1].priority] = <<1>>

\* C7: retry_count never exceeds max_retries.
C7_RetryBudget ==
    \A j \in Stored : jobs[j].retry_count <= jobs[j].max_retries

\* Columns a retry may write, updated_at excepted
RetryColumns ==
    {"status", "retry_count", "error", "result", "started_at", "completed_at"}

\* What a successful retry of job id does to the columns in RetryColumns and
\* to the tiers
RetryEffect(id) ==
    /\ jobs'[id].retry_count = jobs[id].retry_count + 1
    /\ jobs'[id].error = NoneStr /\ jobs'[id].result = NoneStr
    /\ jobs'[id].started_at = NULL /\ jobs'[id].completed_at = NULL
    /\ jobs'[id].status = QUEUED
    /\ tiers'[jobs[id].priority] = <<id>> \o tiers[jobs[id].priority]
    /\ \A p \in JobPriority \ {jobs[id].priority} : tiers'[p] = tiers[p]

\* C8 as stated: a successful retry increments retry_count by 1, empties
\* error, result, started_at and completed_at, sets QUEUED, inserts the id
\* into the tier of the job's priority, and changes no other field.
C8_RetryChangesNothingElse ==
    [][\A id \in Stored :
          (resp'.op = "retry" /\ resp'.code = 200 /\ retry_job(id))
              => /\ RetryEffect(id)
                 /\ \A f \in (DOMAIN jobs[id]) \ RetryColumns :
                        jobs'[id][f] = jobs[id][f]]_vars

\* C8 as amended: as above, and updated_at is set to the time of the retry;
\* no field other than these changes.
C8_RetryEffect ==
    [][\A id \in Stored :
          (resp'.op = "retry" /\ resp'.code = 200 /\ retry_job(id))
              => /\ jobs[id].status \in {FAILED, CANCELLED}
                 /\ RetryEffect(id)
                 /\ jobs'[id].updated_at = now
                 /\ \A f \in (DOMAIN jobs[id]) \ (RetryColumns \cup {"updated_at"}) :
                        jobs'[id][f] = jobs[id][f]]_vars

C8_Witness ==
    /\ resp.op = "retry" /\ resp.code = 200
    /\ jobs[resp.job].status = QUEUED
    /\ jobs[resp.job].retry_count = 1
    /\ jobs[resp.job].completed_at = NULL
    /\ jobs[resp.job].updated_at > jobs[resp.job].created_at
    /\ resp.job \in SeqToSet(tiers[jobs[resp.job].priority])

\* C9: a retry of a job that is PENDING, QUEUED, RUNNING, PAUSED or
\* COMPLETED, or of an unknown id, fails and changes nothing: no row, no
\* tier, no broadcast.
C9_RetryOnlyFromFailedOrCancelled ==
    [][\A id \in JobIdInputs :
          (/\ resp'.op = "retry"
           /\ \/ ~Exists(id)
              \/ jobs[id].status \in
                    {PENDING, QUEUED, RUNNING, PAUSED, COMPLETED}
           /\ retry_job(id))
              => /\ resp'.code >= 400
                 /\ jobs' = jobs /\ tiers' = tiers
                 /\ sent' = <<>>
                 /\ active_connections' = active_connections]_vars

C9_Witness ==
    /\ resp.op = "retry" /\ resp.code = 400
    /\ Exists(resp.job)
    /\ jobs[resp.job].status \in {PENDING, QUEUED, RUNNING, PAUSED, COMPLETED}
    /\ jobs[resp.job].retry_count = 0

\* C10: cancel succeeds exactly from PENDING, QUEUED, RUNNING and PAUSED and
\* then sets CANCELLED; from COMPLETED, CANCELLED and FAILED it fails and
\* changes nothing and broadcasts nothing.
C10_CancelOnlyWhileActive ==
    [][\A id \in Stored :
          (resp'.op = "cancel" /\ cancel_job(id)) =>
              IF jobs[id].status \in {PENDING, QUEUED, RUNNING, PAUSED}
              THEN /\ resp'.code = 200
                   /\ jobs'[id].status = CANCELLED
              ELSE /\ resp'.code >= 400
                   /\ jobs' = jobs /\ tiers' = tiers
                   /\ sent' = <<>>
                   /\ active_connections' = active_connections]_vars

C10_Witness ==
    /\ resp.op = "cancel" /\ resp.code = 400
    /\ Exists(resp.job)
    /\ jobs[resp.job].status \in {COMPLETED, CANCELLED, FAILED}

\* =========================================================================
\* Priority dispatch
LastLogged == dispatch_log'[Len(dispatch_log')]

Claimed ==
    /\ Len(dispatch_log') = Len(dispatch_log) + 1
    /\ LastLogged.ev = "pop"

C12_ClaimedOncePerQueuedPeriod ==
    \A i, j \in 1..Len(dispatch_log) :
        (/\ i < j
         /\ dispatch_log[i].ev = "pop" /\ dispatch_log[j].ev = "pop"
         /\ dispatch_log[i].job = dispatch_log[j].job)
        => \E k \in (i + 1)..(j - 1) :
              /\ dispatch_log[k].ev = "push"
              /\ dispatch_log[k].job = dispatch_log[i].job

Occurrences(s, id) == Len(SelectSeq(s, LAMBDA x : x = id))

\* C13: every job id stands at most once in the four tiers taken together,
\* and only in the tier of the job's current priority (so an update of a
\* queued job's priority has taken the id out of its previous tier).
C13_OneTierOfCurrentPriority ==
    \A j \in Stored :
        /\ \A p \in JobPriority : Occurrences(tiers[p], j) <= 1
        /\ \A p, q \in JobPriority :
              (Occurrences(tiers[p], j) > 0 /\ Occurrences(tiers[q], j) > 0)
              => p = q
        /\ \A p \in JobPriority :
              Occurrences(tiers[p], j) > 0 => p = jobs[j].priority

\* C14: the ids held by the tiers are exactly the ids of the jobs whose
\* stored status is queued.
C14_TiersAreQueuedJobs ==
    {j \in Stored : InTiers(j)} = {j \in Stored : jobs[j].status = QUEUED}

\* =========================================================================
\* Failure and timestamps
\* C19: the step that makes a job failed leaves the tiers as they are, and a
\* failed job becomes queued only in a step in which a retry call for that
\* job answered.
C19_FailedRequeuedOnlyByRetry ==
    [][\A j \in Stored :
         /\ (jobs[j].status # FAILED /\ jobs'[j].status = FAILED)
            => tiers' = tiers
         /\ (jobs[j].status = FAILED /\ jobs'[j].status = QUEUED)
            => (resp'.op = "retry" /\ resp'.job = j)]_vars

Terminal == {COMPLETED, FAILED, CANCELLED}

\* C20: started_at changes only by being set, from NULL, to the time at
\* which the job enters running, and completed_at only by being set, from
\* NULL, to the time at which the job enters a terminal status; apart from
\* that only a retry touches them, and it clears them.
C20_TimestampsWrittenOnce ==
    [][\A j \in Stored :
         /\ jobs'[j].started_at # jobs[j].started_at
            => \/ /\ jobs[j].started_at = NULL
                  /\ jobs[j].status # RUNNING /\ jobs'[j].status = RUNNING
                  /\ jobs'[j].started_at = now
               \/ /\ resp'.op = "retry" /\ resp'.job = j
                  /\ jobs'[j].started_at = NULL
         /\ jobs'[j].completed_at # jobs[j].completed_at
            => \/ /\ jobs[j].completed_at = NULL
                  /\ jobs[j].status \notin Terminal
                  /\ jobs'[j].status \in Terminal
                  /\ jobs'[j].completed_at = now
               \/ /\ resp'.op = "retry" /\ resp'.job = j
                  /\ jobs'[j].completed_at = NULL
         /\ (jobs[j].status # RUNNING /\ jobs'[j].status = RUNNING)
            => jobs'[j].started_at = now
         /\ (jobs[j].status \notin Terminal /\ jobs'[j].status \in Terminal)
            => jobs'[j].completed_at = now]_vars

\* C21: the stored priority of a job changes only while the job is pending
\* or queued: an update that carries a priority for a job that is running,
\* paused, completed, failed or cancelled leaves the priority as it was.
C21_PriorityFrozenOnceClaimed ==
    [][\A j \in Stored :
         jobs'[j].priority # jobs[j].priority
         => jobs[j].status \in {PENDING, QUEUED}]_vars

\* C35: config, scheduled_at, metadata and priority of a job that is
\* completed, failed or cancelled are not changed by an update.
C35_TerminalJobFieldsFrozen ==
    [][\A j \in Stored :
         (resp'.op = "update" /\ jobs[j].status \in Terminal)
         => /\ jobs'[j].config = jobs[j].config
            /\ jobs'[j].scheduled_at = jobs[j].scheduled_at
            /\ jobs'[j].metadata = jobs[j].metadata
            /\ jobs'[j].priority = jobs[j].priority]_vars

\* C29: no job is queued, and no job's id stands in a tier, while the job's
\* scheduled_at lies after the current time.
C29_NotDispatchableBeforeSchedule ==
    \A j \in Stored :
        (jobs[j].status = QUEUED \/ InTiers(j)) => jobs[j].scheduled_at <= now

\* =========================================================================
\* Status broadcast
\* a step in which create_job, update_job, cancel_job or retry_job answered
Handled == now' # now /\ wsKey' = wsKey

\* send_json calls of a request that went to socket ws
Sends(s, ws) == SelectSeq(s, LAMBDA m : m.ws = ws)

\* sockets registered under the client id or under "global"
Registered(cid) == {ws \in DOMAIN wsKey : wsKey[ws] \in {cid, GLOBAL}}

\* C15: a create, update, cancel or retry that changed the store sends
\* exactly one event, carrying the job id and the new status, to every
\* socket registered under the job's client id and to every socket
\* registered under "global".
C15_OneEventPerConnection ==
    [][(Handled /\ jobs' # jobs) =>
         LET id  == resp'.job
             cid == jobs'[id].client_id
         IN  \A ws \in Registered(cid) :
                 /\ Len(Sends(sent', ws)) = 1
                 /\ Sends(sent', ws)[1].job = id
                 /\ Sends(sent', ws)[1].status = jobs'[id].status]_vars

\* C16: when a send_json of a request's broadcast raises, every socket
\* registered under the client id or "global" still gets its send_json, the
\* ones whose peer is there receive the event, and the request answers with
\* success having written the row at its own time.
C16_FailedSendIsolated ==
    [][(Handled /\ \E i \in 1..Len(sent') : ~sent'[i].ok) =>
         LET id  == resp'.job
             cid == jobs'[id].client_id
         IN  /\ resp'.code \in {200, 201}
             /\ jobs' # jobs
             /\ jobs'[id].updated_at = now
             /\ \A ws \in Registered(cid) :
                    /\ Sends(sent', ws) # <<>>
                    /\ ws \notin peer_gone => Sends(sent', ws)[1].ok]_vars

\* a request whose first send_json raised and whose second one went through
C16_Witness ==
    /\ Len(sent) >= 2
    /\ ~sent[1].ok
    /\ sent[2].ok
    /\ resp.code \in {200, 201}
    /\ jobs[resp.job].updated_at = now - 1

\* =========================================================================
\* Concurrent requests
\* C17: on every connection the events arrive in the order in which the
\* writes they report were committed.
C17_EventsInCommitOrder ==
    \A i, j \in 1..Len(delivered) :
        (i < j /\ delivered[i].ws = delivered[j].ws)
        => delivered[i].commit <= delivered[j].commit

Columns == {"status", "priority", "config", "scheduled_at", "metadata"}

Names(req, col) == req[col] # NoUpdate[col]

Written == {i \in 1..Len(calls) : calls[i].pc # "selected"}

\* C18: a column an update call has written holds the value that call asked
\* for, unless another call has written the same column of the same job: of
\* two concurrent updates that name different columns both values are in
\* the stored row, however their steps interleave.
C18_DisjointUpdatesKept ==
    \A i \in Written : \A col \in Columns :
        (/\ Names(calls[i].req, col)
         /\ \A k \in Written \ {i} :
               calls[k].job = calls[i].job => ~Names(calls[k].req, col))
        => jobs[calls[i].job][col] = calls[i].req[col]

\* two calls on one job, both selected before either wrote, one has written
\* config and the other metadata
C18_Witness ==
    /\ Len(calls) >= 2
    /\ calls[1].job = calls[2].job
    /\ calls[1].pc # "selected" /\ calls[2].pc # "selected"
    /\ Names(calls[1].req, "config") /\ Names(calls[2].req, "metadata")
    /\ calls[1].existing = calls[2].existing
    /\ jobs[calls[1].job].config = calls[1].req.config
    /\ jobs[calls[1].job].metadata = calls[2].req.metadata

\* C24: a cancel of a running job sets status, completed_at and updated_at of
\* that job's row and nothing else in the store, leaves the tiers and their
\* history of pushes and pops as they are, and sends the event "cancelled"
\* for that job to every socket registered under the client id or "global".
C24_CancelRunningFrame ==
    [][(Handled /\ resp'.op = "cancel" /\ resp'.code = 200
          /\ jobs[resp'.job].status = RUNNING) =>
         LET id  == resp'.job
             cid == jobs[id].client_id
         IN  /\ jobs' = [jobs EXCEPT ![id] =
                            [@ EXCEPT !.status = CANCELLED,
                                      !.completed_at = now,
                                      !.updated_at = now]]
             /\ tiers' = tiers
             /\ dispatch_log' = dispatch_log
             /\ \A i \in 1..Len(sent') :
                    sent'[i].job = id /\ sent'[i].status = CANCELLED
             /\ \A ws \in Registered(cid) : Sends(sent', ws) # <<>>]_vars

\* a running job, its id still in a tier, was cancelled and a socket got the
\* event
C24_Witness ==
    /\ resp.op = "cancel" /\ resp.code = 200
    /\ jobs[resp.job].status = CANCELLED
    /\ jobs[resp.job].started_at # NULL
    /\ jobs[resp.job].completed_at = now - 1
    /\ InTiers(resp.job)
    /\ sent # <<>>
    /\ sent[1].ok /\ sent[1].status = CANCELLED

\* =========================================================================
\* Dependencies
\* job j of table t depends on job k through at most n edges
RECURSIVE DependsOnWithin(_, _, _, _)
DependsOnWithin(t, j, k, n) ==
    /\ n > 0
    /\ \E d \in t[j].depends_on :
          \/ d = k
          \/ d \in 1..Len(t) /\ DependsOnWithin(t, d, k, n - 1)

Acyclic(t) == \A j \in 1..Len(t) : ~DependsOnWithin(t, j, j, Len(t))

\* C25: after every step the depends_on relation of the stored jobs is
\* acyclic (so a creation that would close a cycle was not stored), and no
\* step changes the depends_on of a stored job.
C25_DependenciesAcyclic ==
    [][/\ Acyclic(jobs')
       /\ \A j \in Stored : jobs'[j].depends_on = jobs[j].depends_on]_vars

\* job 2 depends on job 1, and a creation that listed an id without a row
\* (its own) was rejected
C25_Witness ==
    /\ Len(jobs) = 2
    /\ jobs[2].depends_on = {1}
    /\ Acyclic(jobs)
    /\ resp.op = "create" /\ resp.code = 400

\* =========================================================================
\* What the server does on its own
\* socket ws stands in a list of the registry
Listed(ws) ==
    \E k \in DOMAIN active_connections :
        ws \in SeqToSet(active_connections[k])

\* status of job j, NoneStr while the table has no such row
StatusOf(j) == IF Exists(j) THEN jobs[j].status ELSE NoneStr

\* C22: a job that is queued in the table while its id is in no tier does
\* not stay so forever: its id gets into a tier (or the job leaves queued).
C22_QueuedEventuallyInTier ==
    \A j \in JobIds :
        (StatusOf(j) = QUEUED /\ ~InTiers(j))
        ~> (InTiers(j) \/ StatusOf(j) # QUEUED)

\* C23: a job that has been running for longer than its timeout_seconds
\* does not remain running forever.
C23_RunningEventuallyEnds ==
    \A j \in JobIds :
        (/\ StatusOf(j) = RUNNING
         /\ jobs[j].started_at # NULL
         /\ now > jobs[j].started_at + jobs[j].timeout_seconds)
        ~> (StatusOf(j) # RUNNING)

\* C26: a socket that is closed, so that every send to it fails, does not
\* stay in a list of the registry forever.
C26_DeadSocketEvicted ==
    \A ws \in BroadcastSockets :
        (wsKey[ws] = CLOSED /\ Listed(ws)) ~> ~Listed(ws)

\* C30: a pending job without dependencies whose scheduled_at has passed
\* does not stay pending forever.
C30_DuePendingEventuallyQueued ==
    \A j \in JobIds :
        (/\ StatusOf(j) = PENDING
         /\ jobs[j].depends_on = {}
         /\ jobs[j].scheduled_at <= now)
        ~> (StatusOf(j) # PENDING)

\* C27: the hour that holds a recommended time is not a busy hour.
C27_RecommendedHourNotBusy ==
    advisor.op = "schedule"
    => date_trunc_hour(advisor.out) \notin busy_hours(advisor.req.job_count)

\* hours between two runs of a job type, as section 4.7 lists them
HoursBetweenRuns(jt) ==
    IF jt = "health_check" THEN 6
    ELSE IF jt = "backup" THEN 12
    ELSE 24

\* C37 as stated: the candidate is the last completed run plus the interval
\* of the job type, and the time of the request plus one hour when the type
\* has no completed run.
C37_CandidateIsLastRunPlusInterval ==
    advisor.op = "schedule"
    => LET r == advisor.req
       IN  advisor.candidate =
              IF r.last_run = NoDatetime
              THEN [r.at EXCEPT !.hour = @ + 1]
              ELSE [r.last_run EXCEPT
                       !.hour = @ + HoursBetweenRuns(r.job_type)]

\* C37 amended: the candidate is the last completed run plus the interval
\* of the job type unless that lies before the time of the request, in
\* which case it is the time of the request plus 30 minutes; it is the
\* time of the request plus one hour when the type has no completed run.
C37_CandidateNotInThePast ==
    advisor.op = "schedule"
    => LET r    == advisor.req
           due  == [r.last_run EXCEPT
                       !.hour = @ + HoursBetweenRuns(r.job_type)]
           soon == IF r.at.minute < 30
                   THEN [r.at EXCEPT !.minute = @ + 30]
                   ELSE [r.at EXCEPT !.hour = @ + 1, !.minute = @ - 30]
       IN  advisor.candidate =
              IF r.last_run = NoDatetime THEN [r.at EXCEPT !.hour = @ + 1]
              ELSE IF before(due, r.at) THEN soon
              ELSE due

\* a backup whose next run was due two hours before a request made at a
\* quarter to the hour
C37_Witness ==
    /\ advisor.op = "schedule"
    /\ advisor.req.job_type = "backup"
    /\ advisor.req.last_run = datetime(10, 50, 0, 5)
    /\ advisor.req.at = datetime(24, 45, 7, 5)
    /\ advisor.candidate = datetime(25, 15, 7, 5)

\* C28: the decision is "Automate" exactly when the effort is paid back
\* within three months of saved time, "Keep Manual" otherwise, also when
\* nothing is saved; the confidence is 0.80 when the payback is at most two
\* or more than six months (or never comes), and 0.60 in between.
C28_DecisionByPayback ==
    advisor.op = "decide"
    => LET r == advisor.req
           f == IF r.frequency_per_month = NULL THEN 1
                ELSE r.frequency_per_month
           m == IF r.manual_time_minutes = NULL THEN 30
                ELSE r.manual_time_minutes
           effort == 60 * (IF r.automation_effort_hours = NULL THEN 8
                           ELSE r.automation_effort_hours)
           saved == f * m
       IN  /\ advisor.out.decision \in {"Automate", "Keep Manual"}
           /\ advisor.out.decision = "Automate"
                  <=> (saved > 0 /\ effort <= 3 * saved)
           /\ advisor.out.confidence \in {60, 80}
           /\ advisor.out.confidence = 60
                  <=> (saved > 0 /\ 2 * saved < effort /\ effort <= 6 * saved)

\* a payback of exactly three months is decided "Automate" with confidence
\* 0.60, and a request that saves nothing "Keep Manual" with 0.80
C28_Witness ==
    /\ advisor.op = "decide"
    /\ advisor.req.frequency_per_month = 2
    /\ advisor.req.manual_time_minutes = NULL
    /\ advisor.req.automation_effort_hours = 3
    /\ advisor.out = [decision |-> "Automate", confidence |-> 60]

\* =========================================================================
\* The strategy of a decision
\* a character of the context is the letter c, in either case
SameLetter(x, c) ==
    \/ x = c
    \/ \E k \in 1..Len(Lowercase) : Lowercase[k] = c /\ Uppercase[k] = x

\* the word occurs in the context, whatever the case of the context
Occurs(word, context) ==
    \E k \in 0..(Len(context) - Len(word)) :
        \A i \in 1..Len(word) : SameLetter(context[k + i], word[i])

\* C38: the decision of a context is made by exactly one strategy, the first
\* that matches the context, whatever its case: scheduling for "scheduling"
\* or "when", else prioritization for "prioritization" or "priority", else
\* automation viability for "automation" or "automate", else the generic
\* answer "Requires manual review" with confidence 0.3; the strategy depends
\* on nothing but the context.
C38_StrategyByFirstKeyword ==
    advisor.op = "route"
    => LET c == advisor.req.context
           sched == Occurs(keywords.scheduling, c) \/ Occurs(keywords.when, c)
           prio == Occurs(keywords.prioritization, c) \/ Occurs(keywords.priority, c)
           autom == Occurs(keywords.automation, c) \/ Occurs(keywords.automate, c)
       IN  /\ advisor.strategy = "_make_scheduling_decision" <=> sched
           /\ advisor.strategy = "_make_prioritization_decision"
                  <=> (~sched /\ prio)
           /\ advisor.strategy = "_make_automation_decision"
                  <=> (~sched /\ ~prio /\ autom)
           /\ advisor.strategy = "generic" <=> (~sched /\ ~prio /\ ~autom)
           /\ advisor.strategy = "generic"
                  => advisor.out = [decision |-> "Requires manual review",
                                    confidence |-> 30]
           /\ advisor.strategy = "_make_scheduling_decision"
                  => advisor.out.decision = "Schedule for"
           /\ advisor.strategy = "_make_prioritization_decision"
                  => advisor.out.decision \in
                         {"Prioritize:",
                          "Unable to prioritize without options"}
           /\ advisor.strategy = "_make_automation_decision"
                  => advisor.out.decision \in {"Automate", "Keep Manual"}

\* "Automate WHEN?" names two strategies in upper case and is decided by
\* the scheduling strategy; "auto review" names none
C38_Witness ==
    /\ advisor.op = "route"
    /\ advisor.req.context = <<"A", "u", "t", "o", "m", "a", "t", "e", " ", "W", "H", "E", "N", "?">>
    /\ advisor.strategy = "_make_scheduling_decision"

\* =========================================================================
\* Isolation of subscribers
\* C31: every send_json of a broadcast for a job goes to a socket registered
\* under the job's client id or under "global" (or to one of these that has
\* closed since, where it fails); a socket registered under another client
\* id gets none, and is in no list once its handler has ended.
C31_OnlyOwnAndGlobalSubscribers ==
    [][/\ sent' # sent =>
            \A i \in 1..Len(sent') :
                LET m == sent'[i]
                    cid == jobs'[m.job].client_id
                IN  /\ wsKey[m.ws] \in {cid, GLOBAL, CLOSED}
                    /\ wsKey[m.ws] = CLOSED => ~m.ok
       /\ \A ws \in DOMAIN wsKey :
              (wsKey[ws] = OtherClient /\ wsKey'[ws] = CLOSED)
              => ~Listed(ws)']_vars

\* a broadcast that reached the client's own socket and the global one
\* while a third socket was registered under another client
C31_Witness ==
    /\ \E ws \in DOMAIN wsKey : wsKey[ws] = OtherClient
    /\ \E i, k \in 1..Len(sent) :
           /\ wsKey[sent[i].ws] = GLOBAL /\ sent[i].ok
           /\ wsKey[sent[k].ws] \in Clients /\ sent[k].ok
    /\ \A i \in 1..Len(sent) : wsKey[sent[i].ws] # OtherClient

\* =========================================================================
\* Stalled subscribers
\* where call i stands, NoneStr while there is no such call
PcOf(i) == IF i <= Len(calls) THEN calls[i].pc ELSE NoneStr

\* C32: a broadcast that has entered its loop reaches every socket of its
\* list whose peer reads, and its request returns, also when the peer of
\* another socket of the list never reads.
C32_StalledSendDoesNotBlock ==
    \A i \in 1..MaxCalls :
        /\ (PcOf(i) = "sending") ~> (PcOf(i) = "done")
        /\ \A ws \in BroadcastSockets :
              (/\ PcOf(i) = "sending"
               /\ ws \in SeqToSet(connections(calls[i]))
               /\ ws \notin stalled)
              ~> (\/ ws \in stalled
                  \/ /\ PcOf(i) \in {"sending", "done"}
                     /\ \E k \in 1..Len(sent) :
                           sent[k].ws = ws /\ sent[k].job = calls[i].job)

\* =========================================================================
\* The end of a subscriber's handler
\* C33: a socket whose handler has ended stands in no list of
\* active_connections and has no entry in client_subscriptions.
C33_EndedHandlerLeavesNoTrace ==
    \A ws \in DOMAIN wsKey :
        wsKey[ws] = CLOSED
        => (~Listed(ws) /\ ws \notin DOMAIN client_subscriptions)

\* =========================================================================
\* Cancelled test runs
\* C39: a test run whose status is CANCELLED keeps that status: the
\* background execution of the run, whether it had not started or was under
\* way when the run was cancelled, never sets the status to RUNNING,
\* COMPLETED or FAILED afterwards.
C39_CancelledRunStaysCancelled ==
    [][\A run_id \in 1..Len(test_runs) :
           test_runs[run_id].status = CANCELLED
           => test_runs'[run_id].status = CANCELLED]_vars

SpecQA == Init /\ [][NextQA]_vars

\* =========================================================================
\* Jobs from every router
\* C36: every stored job has a job_type of JobType and a priority of
\* JobPriority, and every Redis list that ids were pushed to is one of the
\* four tiers.
C36_EveryJobTypedAndTiered ==
    /\ \A j \in Stored :
          jobs[j].job_type \in JobType /\ jobs[j].priority \in JobPriority
    /\ DOMAIN tiers \subseteq JobPriority

SpecToast == Init /\ [][NextToast]_vars

\* =========================================================================
\* Calls that race
\* all calls have answered
Answered ==
    \A i \in 1..Len(calls) :
        calls[i].pc \in {"done", "retry_rejected", "cancel_rejected"}

\* C34: when two or more retry calls for a job that can be retried have run
\* at the same time and all have answered, exactly one of them succeeded,
\* retry_count has grown by one and the id was pushed once more (it stands
\* in its tier twice: from create_job and from the one retry); likewise for
\* cancel calls of a job that can be cancelled: exactly one succeeded and
\* broadcast, the row is cancelled with the timestamps of that one call.
C34_OneOfConcurrentCallsWins ==
    (Len(calls) >= 2 /\ Answered)
    => LET id   == calls[1].job
           won  == {i \in 1..Len(calls) : calls[i].pc = "done"}
           seen == calls[1].existing
       IN  /\ (RetryRace(id) /\ retry_allowed(seen))
              => /\ Cardinality(won) = 1
                 /\ jobs[id].status = QUEUED
                 /\ jobs[id].retry_count = seen.retry_count + 1
                 /\ Occurrences(tiers[jobs[id].priority], id) = 2
           /\ (CancelRace(id) /\ cancel_allowed(seen.status))
              => /\ Cardinality(won) = 1
                 /\ jobs[id].status = CANCELLED
                 /\ \A i \in won :
                        /\ jobs[id].completed_at = calls[i].commit
                        /\ jobs[id].updated_at = calls[i].commit

\* the second retry was refused while the first one had written the row
\* and not yet pushed the id, and both have answered
C34_Witness ==
    /\ Len(calls) = 2
    /\ calls[1].pc = "done"
    /\ calls[1].row.status = QUEUED
    /\ calls[2].pc = "retry_rejected"
    /\ calls[2].job = calls[1].job
    /\ Occurrences(tiers[NORMAL], calls[1].job) = 2
    /\ resp = [op |-> "retry", code |-> 200, job |-> calls[1].job]

SpecRace == InitBroadcast /\ [][NextRace]_vars
SpecHandler == InitBroadcast /\ [][NextHandler]_vars
SpecStall == InitBroadcast /\ [][NextStall]_vars /\ FairStall
SpecIsolation == InitIsolation /\ [][NextIsolation]_vars
SpecAdvisor == InitAdvisor /\ [][NextAdvisor]_vars
SpecLive == InitBroadcast /\ [][NextLive]_vars /\ FairLive

SpecDeps == Init /\ [][NextDeps]_vars

SpecConcurrent == InitBroadcast /\ [][NextConcurrent]_vars

SpecBroadcast == InitBroadcast /\ [][NextBroadcast]_vars

SpecDispatch == Init /\ [][NextDispatch]_vars

Spec == Init /\ [][Next]_vars

====
